---- MODULE Spec2Model ----
(***************************************************************************)
(* Model of the OnBoard LED timer / fan controller firmware.               *)
(*                                                                         *)
(*   Core/Src/freertos.c           tasks, Callback01, serial handlers      *)
(*   Core/Inc/main.h               shared structures and constants         *)
(*   App/Common/Src/battery_monitor.c                                      *)
(*   App/Common/Src/flash_storage.c                                        *)
(*                                                                         *)
(* Times are FreeRTOS ticks of 1 ms (portTICK_PERIOD_MS = 1).  The 32-bit  *)
(* tick counter does not wrap within the explored runs, so a difference of *)
(* two tick values is the plain difference.                                *)
(***************************************************************************)
EXTENDS Integers, Sequences, FiniteSets, TLC

(***************************************************************************)
(* Program constants                                                       *)
(***************************************************************************)
GPIO_PIN_RESET == 0
GPIO_PIN_SET == 1

BUTTON_STATE_STANDBY == 0
BUTTON_STATE_TIMER_SET == 1

LED_STATE_LOW == 0
LED_STATE_MIDDLE == 1
LED_STATE_HIGH == 2

DUTY_100 == 800
DUTY_50 == 400
DUTY_0 == 0

LED_LOW_MAX == 2100
LED_LOW_MIN == 1500
LED_HIGH_MAX == 4095
LED_HIGH_MIN == 2800

VBAT_FILTER_SIZE == 8
CMD_BUFFER_SIZE == 128
VBAT_SAMPLES == 5
VBAT_STEP_THRESHOLD == 30

BUTTON_POLL_MS == 10
DEBOUNCE_COUNT == 3
CLICK_MIN_MS == 20
SHORT_CLICK_MS == 1000
LONG_PRESS_MS == 1500
TIMER_SET_TIMEOUT_MS == 5000
TIMER_STEP == 2
TIMER_MAX == 10
DEFAULT_TIMER_VALUE == 10

ADC_PERIOD_MS == 20
PWM_SETTLE_MS == 100

COOLING_MAX == 60
COOLING_MIN == 30
COOLING_SHORT == 10
COOLING_STOP_SECOND == 50

\* 0xABCD2111; 32-bit flash words are pairs <<high half, low half>>.
FLASH_MAGIC_NUMBER == <<43981, 8465>>
FLASH_VERSION == 1

ADC_RESOLUTION == 4095
BATTERY_STATUS_NORMAL == 0
BATTERY_STATUS_LOW == 1
BATTERY_STATUS_CRITICAL == 2
BATTERY_SAMPLE_BUFFER_SIZE == 8
TEN_SECOND_BUFFER_SIZE == 50
TEN_SECOND_SAMPLE_PERIOD_MS == 100
TEN_SECOND_MS == 10000
VOLTAGE_CHANGE_THRESHOLD_ADC == 24
BATTERY_PERCENTAGE_SAVE_THRESHOLD == 2
BATTERY_FLASH_SAVE_INTERVAL_MS == 300000
BATTERY_LOAD_VOLTAGE_DROP_ADC == 90
BATTERY_RECOVERY_TIME_MS == 5000
BATTERY_MAX == 3720
BATTERY_FULL == 3640
BATTERY_MIN == 2740
\* Percentages are carried in hundredths of a percent.
PERCENT_STEP == 200
PERCENT_FULL == 10000
PERCENT_DEFAULT == 5000
PERCENT_LOW == 2000
PERCENT_CRITICAL == 1000

(***************************************************************************)
(* Bounds of the model                                                     *)
(***************************************************************************)
\* The button is operated during the first Horizon milliseconds after boot
\* (HAL_GetTick stays far below its 32-bit wrap).
Horizon == 7000
\* Longest countdown, in minutes, that the environment starts.
MaxRunMinutes == 1
\* Number of AdcTask iterations explored.
MaxAdcIter == 10
\* Number of command lines the host sends.
MaxRxLines == 2
\* Number of five-second windows of battery monitoring explored.
MaxBatWindows == 4
\* Battery_Monitor_Update is called once per sampling period; the battery
\* conversion and the load flag are constant while the ten-second buffer
\* fills once.
BatPeriodMs == TEN_SECOND_SAMPLE_PERIOD_MS
BatWindowMs == TEN_SECOND_BUFFER_SIZE * TEN_SECOND_SAMPLE_PERIOD_MS
BatLevels == {2800, 2880}

\* A bouncing contact is followed for the first BounceHorizon milliseconds.
BounceHorizon == 200
\* Lengths (in polls) of the periods of constant level of a bouncing contact.
BounceRuns == {1, 2, 3, 5}

\* Lengths (in polls of 10 ms) of the button-down and button-up periods.
PressRuns == {3, 153}
ReleaseRuns == {253, 503}
\* Minutes/seconds arguments of SET_TIMER.
SetTimerArgs == {<<1, 0>>, <<100, 0>>}
\* Instants at which the user or the host acts while the timer is busy: the
\* displayed second while counting down, the remaining seconds while cooling.
InputSeconds == {0, 25, 50, 51, 59}
InputCoolingSeconds == {1, 10, 30}

(***************************************************************************)
(* Fixed-width arithmetic                                                  *)
(***************************************************************************)
ToUint8(x) == x % 256

ToInt8(x) == LET m == x % 256 IN IF m >= 128 THEN m - 256 ELSE m

ToUint16(x) == x % 65536

ToInt16(x) == LET m == x % 65536 IN IF m >= 32768 THEN m - 65536 ELSE m

Abs(x) == IF x < 0 THEN -x ELSE x

\* C integer division truncates toward zero.
CDiv(a, b) == IF a >= 0 THEN a \div b ELSE -((-a) \div b)

Max2(a, b) == IF a >= b THEN a ELSE b

Min2(a, b) == IF a <= b THEN a ELSE b

(***************************************************************************)
(* flash_storage.c : the record stored in flash page 31                    *)
(***************************************************************************)
\* Sum of the n little-endian bytes of x.
RECURSIVE ByteSum(_, _)
ByteSum(x, n) == IF n = 0 THEN 0 ELSE (x % 256) + ByteSum(x \div 256, n - 1)

\* A value below 2^31 as a 32-bit word.
Word32(x) == <<x \div 65536, x % 65536>>

Flash_CalculateChecksum(d) ==
    Word32(ByteSum(d.magic[1], 2) + ByteSum(d.magic[2], 2)
           + ByteSum(d.version, 2) + ByteSum(d.reserved, 2)
           + ByteSum(d.timer_value[1], 2) + ByteSum(d.timer_value[2], 2)
           + ByteSum(d.battery_percentage, 1)
           + ByteSum(d.battery_status, 1) + ByteSum(d.last_battery_adc, 2))

ErasedPage ==
    [magic |-> <<65535, 65535>>, version |-> 65535, reserved |-> 65535,
     timer_value |-> <<65535, 65535>>, battery_percentage |-> 255,
     battery_status |-> 255, last_battery_adc |-> 65535,
     checksum |-> <<65535, 65535>>]

\* A validity test that trusts the magic number and the version.
Flash_IsDataValidNoSum(page) ==
    /\ page.magic = FLASH_MAGIC_NUMBER
    /\ page.version = FLASH_VERSION

Flash_IsDataValid(page) ==
    /\ page.magic = FLASH_MAGIC_NUMBER
    /\ page.version = FLASH_VERSION
    /\ page.checksum = Flash_CalculateChecksum(page)

\* The page after `k` of the three doubleword programs of record d.
ProgramPrefix(d, k) ==
    [magic |-> IF k >= 1 THEN d.magic ELSE ErasedPage.magic,
     version |-> IF k >= 1 THEN d.version ELSE ErasedPage.version,
     reserved |-> IF k >= 1 THEN d.reserved ELSE ErasedPage.reserved,
     timer_value |-> IF k >= 2 THEN d.timer_value ELSE ErasedPage.timer_value,
     battery_percentage |-> IF k >= 2 THEN d.battery_percentage
                            ELSE ErasedPage.battery_percentage,
     battery_status |-> IF k >= 2 THEN d.battery_status ELSE ErasedPage.battery_status,
     last_battery_adc |-> IF k >= 2 THEN d.last_battery_adc
                          ELSE ErasedPage.last_battery_adc,
     checksum |-> IF k >= 3 THEN d.checksum ELSE ErasedPage.checksum]

\* Outcomes of the HAL calls of one write: which call fails, if any.
FlashOutcomes == {"ok", "erase_fail", "unlock_fail", "program_fail_0",
                  "program_fail_1", "program_fail_2"}

\* A write that programs the record over the old one without erasing the page
\* first.
FlashProgramInPlace(page, d, outcome) ==
    LET over(k) ==
            [magic |-> IF k >= 1 THEN d.magic ELSE page.magic,
             version |-> IF k >= 1 THEN d.version ELSE page.version,
             reserved |-> IF k >= 1 THEN d.reserved ELSE page.reserved,
             timer_value |-> IF k >= 2 THEN d.timer_value ELSE page.timer_value,
             battery_percentage |-> IF k >= 2 THEN d.battery_percentage
                                    ELSE page.battery_percentage,
             battery_status |-> IF k >= 2 THEN d.battery_status
                                ELSE page.battery_status,
             last_battery_adc |-> IF k >= 2 THEN d.last_battery_adc
                                  ELSE page.last_battery_adc,
             checksum |-> IF k >= 3 THEN d.checksum ELSE page.checksum]
    IN  CASE outcome = "erase_fail" -> [page |-> page, ok |-> FALSE]
          [] outcome = "unlock_fail" -> [page |-> page, ok |-> FALSE]
          [] outcome = "program_fail_0" -> [page |-> over(0), ok |-> FALSE]
          [] outcome = "program_fail_1" -> [page |-> over(1), ok |-> FALSE]
          [] outcome = "program_fail_2" -> [page |-> over(2), ok |-> FALSE]
          [] OTHER -> [page |-> over(3), ok |-> TRUE]

\* Erase, then program the record; returns [page, ok].
FlashErasePageAndProgram(page, d, outcome) ==
    CASE outcome = "erase_fail" -> [page |-> page, ok |-> FALSE]
      [] outcome = "unlock_fail" -> [page |-> ErasedPage, ok |-> FALSE]
      [] outcome = "program_fail_0" -> [page |-> ProgramPrefix(d, 0), ok |-> FALSE]
      [] outcome = "program_fail_1" -> [page |-> ProgramPrefix(d, 1), ok |-> FALSE]
      [] outcome = "program_fail_2" -> [page |-> ProgramPrefix(d, 2), ok |-> FALSE]
      [] OTHER -> [page |-> ProgramPrefix(d, 3), ok |-> TRUE]

\* A timer write that always starts from a fresh record.
Flash_WriteTimerValueFresh(page, timer_value, outcome) ==
    LET base == [magic |-> FLASH_MAGIC_NUMBER, version |-> FLASH_VERSION,
                 reserved |-> 0, timer_value |-> Word32(0),
                 battery_percentage |-> 50, battery_status |-> 0,
                 last_battery_adc |-> 3300, checksum |-> Word32(0)]
        d1 == [base EXCEPT !.timer_value = Word32(timer_value)]
        d2 == [d1 EXCEPT !.checksum = Flash_CalculateChecksum(d1)]
    IN  FlashErasePageAndProgram(page, d2, outcome)

Flash_WriteTimerValue(page, timer_value, outcome) ==
    LET base == IF Flash_IsDataValid(page) THEN page
                ELSE [magic |-> FLASH_MAGIC_NUMBER, version |-> FLASH_VERSION,
                      reserved |-> 0, timer_value |-> Word32(0),
                      battery_percentage |-> 50, battery_status |-> 0,
                      last_battery_adc |-> 3300, checksum |-> Word32(0)]
        d1 == [base EXCEPT !.timer_value = Word32(timer_value)]
        d2 == [d1 EXCEPT !.checksum = Flash_CalculateChecksum(d1)]
    IN  FlashErasePageAndProgram(page, d2, outcome)

\* A battery write that programs the record with the checksum it found.
Flash_WriteBatteryDataStaleSum(page, percentage, status, adc_value, outcome) ==
    LET base == IF Flash_IsDataValid(page) THEN page
                ELSE [magic |-> FLASH_MAGIC_NUMBER, version |-> FLASH_VERSION,
                      reserved |-> 0, timer_value |-> Word32(10),
                      battery_percentage |-> 0, battery_status |-> 0,
                      last_battery_adc |-> 0, checksum |-> Word32(0)]
        d1 == [base EXCEPT !.battery_percentage = percentage,
                           !.battery_status = status,
                           !.last_battery_adc = adc_value]
    IN  FlashErasePageAndProgram(page, d1, outcome)

Flash_WriteBatteryData(page, percentage, status, adc_value, outcome) ==
    LET base == IF Flash_IsDataValid(page) THEN page
                ELSE [magic |-> FLASH_MAGIC_NUMBER, version |-> FLASH_VERSION,
                      reserved |-> 0, timer_value |-> Word32(10),
                      battery_percentage |-> 0, battery_status |-> 0,
                      last_battery_adc |-> 0, checksum |-> Word32(0)]
        d1 == [base EXCEPT !.battery_percentage = percentage,
                           !.battery_status = status,
                           !.last_battery_adc = adc_value]
        d2 == [d1 EXCEPT !.checksum = Flash_CalculateChecksum(d1)]
    IN  FlashErasePageAndProgram(page, d2, outcome)

\* Returns [ok, timer_value].
Flash_ReadTimerValue(page) ==
    IF ~Flash_IsDataValid(page) THEN [ok |-> FALSE, timer_value |-> Word32(10)]
    ELSE [ok |-> TRUE, timer_value |-> page.timer_value]

\* Returns [ok, percentage, status, adc_value].
Flash_ReadBatteryData(page) ==
    IF ~Flash_IsDataValid(page)
    THEN [ok |-> FALSE, percentage |-> 50, status |-> 0, adc_value |-> 3300]
    ELSE [ok |-> TRUE, percentage |-> page.battery_percentage,
          status |-> page.battery_status, adc_value |-> page.last_battery_adc]

\* freertos.c Timer_LoadFromFlash: the Timer_Value set at start-up.
Timer_LoadFromFlash(page) ==
    LET r == Flash_ReadTimerValue(page)
    IN  IF r.ok
        THEN IF r.timer_value[1] = 0 /\ r.timer_value[2] >= 1
                /\ r.timer_value[2] <= 255
             THEN ToUint8(r.timer_value[2])
             ELSE DEFAULT_TIMER_VALUE
        ELSE DEFAULT_TIMER_VALUE

\* A valid stored record.
StoredRecord(tv, pct, st, adc) ==
    LET d == [magic |-> FLASH_MAGIC_NUMBER, version |-> FLASH_VERSION, reserved |-> 0,
              timer_value |-> Word32(tv), battery_percentage |-> pct,
              battery_status |-> st, last_battery_adc |-> adc, checksum |-> Word32(0)]
    IN  [d EXCEPT !.checksum = Flash_CalculateChecksum(d)]

\* Contents of the flash page found at power-on.
InitFlashPages == {ErasedPage, StoredRecord(1, 12, 1, 2840)}
\* Pages whose stored duration is at the top of the range Timer_LoadFromFlash
\* accepts (1..255), and one odd duration.
TimerSetFlashPages == {StoredRecord(254, 12, 1, 2840), StoredRecord(255, 12, 1, 2840),
                       StoredRecord(7, 12, 1, 2840)}

(***************************************************************************)
(* State                                                                   *)
(***************************************************************************)
VARIABLES
    Button_State,     \* main.h Button_t (fields used by the tasks)
    btn,              \* locals of StartButtonTask
    tick,             \* xTaskGetTickCount() as seen by the button task
    raw_level,        \* level of the Setting_Button pin
    MainTimerActive,  \* MainTimer (osTimerStart / osTimerStop)
    FAN_ONOFF,        \* level of the FAN_ONOFF pin
    flash,            \* flash page 31
    UART_State,       \* monitoring flags of UART_State_t
    Adc_State,        \* main.h Adc_t
    adc,              \* locals of StartAdcTask
    adc_tick,         \* xTaskGetTickCount() as seen by the ADC task
    pwm_compare,      \* TIM2 channel 4 compare register
    last_op,          \* history: the handler that ran last and what it did
                      \* (for a serial handler: the response it transmitted)
    run_ticks,        \* history: Callback01 ticks since an undisturbed start
    stable_since,     \* history: adc_tick at which the LED pair last changed
    monitor,          \* main.h Battery_Monitor_t
    bat_tick,         \* HAL_GetTick() as seen by Battery_Monitor_Update
    bat_input,        \* battery conversion and load flag presented to it
    call,             \* history: the last direct call of a library function,
                      \* [fn, arg, ok, res, fresh]
    rx,               \* the host's side of the serial line: the bytes still to
                      \* arrive, and history of the lines sent so far
    click,            \* position of a preempted StartButtonTask click handler
    writers,          \* history: per Button_State field, the execution
                      \* contexts that have changed it (recorded when switched on)
    fw                \* the two flash writers: position in the write, the
                      \* record built from the page read, the arguments

timerVars == <<Button_State, btn, tick, raw_level, MainTimerActive, FAN_ONOFF,
               flash, UART_State, run_ticks>>
adcVars == <<Adc_State, adc, adc_tick, pwm_compare, stable_since>>
batVars == <<monitor, bat_tick, bat_input>>
vars == <<Button_State, btn, tick, raw_level, MainTimerActive, FAN_ONOFF, flash,
          UART_State, Adc_State, adc, adc_tick, pwm_compare, last_op,
          run_ticks, stable_since, monitor, bat_tick, bat_input, call,
          rx, click, writers, fw>>
auxVars == <<rx, click, writers, fw>>

\* The fields of Button_State that more than one task or callback uses.
SharedFields ==
    {"is_Start_Timer", "is_start_to_cooling", "Timer_Value", "minute_count",
     "second_count", "cooling_second", "Current_Button_State"}

\* History: the handler of context ctx leaves Button_State as B1.
Wrote(ctx, B1) ==
    writers' = IF writers.on
               THEN [writers EXCEPT !.by =
                        [f \in SharedFields |->
                            IF B1[f] # Button_State[f]
                            THEN writers.by[f] \cup {ctx} ELSE writers.by[f]]]
               ELSE writers

(***************************************************************************)
(* freertos.c StartButtonTask: one pass of the loop body at time `now`     *)
(* with pin sample `raw`.  c is the bundle                                 *)
(*   [B: Button_State, L: locals, T: MainTimer active, F: FAN_ONOFF,       *)
(*    P: flash page]; fo is the outcome of a flash write made in the pass. *)
(***************************************************************************)
Timer_SaveToFlash(page, timer_value, fo) ==
    Flash_WriteTimerValue(page, timer_value, fo).page

\* A debounce that accepts a level after two equal samples.
ButtonDebounceTwo(c, raw, now) ==
    LET c0 == [c EXCEPT !.B.Button_Current_Time = now]
    IN  IF raw = c0.L.button_stable_state
        THEN LET n == c0.L.button_stable_count + 1
             IN  IF n >= DEBOUNCE_COUNT - 1
                 THEN [c0 EXCEPT !.B.Button_Current_State = c0.L.button_stable_state,
                                 !.L.button_stable_count = DEBOUNCE_COUNT]
                 ELSE [c0 EXCEPT !.L.button_stable_count = n]
        ELSE [c0 EXCEPT !.L.button_stable_state = raw,
                        !.L.button_stable_count = 1]

\* lines 745-758: three equal samples accept a level.
ButtonDebounce(c, raw, now) ==
    LET c0 == [c EXCEPT !.B.Button_Current_Time = now]
    IN  IF raw = c0.L.button_stable_state
        THEN LET n == c0.L.button_stable_count + 1
             IN  IF n >= DEBOUNCE_COUNT
                 THEN [c0 EXCEPT !.B.Button_Current_State = c0.L.button_stable_state,
                                 !.L.button_stable_count = DEBOUNCE_COUNT]
                 ELSE [c0 EXCEPT !.L.button_stable_count = n]
        ELSE [c0 EXCEPT !.L.button_stable_state = raw,
                        !.L.button_stable_count = 1]

\* lines 761-768
ButtonPressDetect(c) ==
    IF /\ c.B.Button_Prev_State = GPIO_PIN_SET
       /\ c.B.Button_Current_State = GPIO_PIN_RESET
       /\ c.L.button_stable_count >= DEBOUNCE_COUNT
    THEN [c EXCEPT !.B.Button_Press_Start_Time = c.B.Button_Current_Time,
                   !.L.is_Button_Pressed = TRUE,
                   !.L.is_Button_Released = FALSE]
    ELSE c

\* lines 805-810 and 1265-1267: int8_t cooling_second = diff * 10, capped at 60.
StopCoolingSeconds(diff) ==
    LET cs == ToInt8(diff * 10)
    IN  IF cs > COOLING_MAX THEN COOLING_MAX ELSE cs

\* Seeded fault: the early stop no longer looks at the displayed second.
ButtonStandbyClickAnySecond(c) ==
    IF /\ c.B.Button_Press_Duration < SHORT_CLICK_MS
       /\ ~c.B.is_start_to_cooling
    THEN LET c1 == [c EXCEPT !.F = GPIO_PIN_SET,
                             !.B.is_Start_Timer = ~c.B.is_Start_Timer]
         IN  IF c1.B.is_Start_Timer
             THEN [c1 EXCEPT !.T = TRUE,
                             !.B.minute_count = ToInt8(c1.B.Timer_Value),
                             !.B.second_count = 0]
             ELSE IF c1.B.Timer_Value - ToUint8(c1.B.minute_count) # 0
             THEN [c1 EXCEPT !.B.is_start_to_cooling = TRUE,
                             !.B.cooling_second =
                                 StopCoolingSeconds(c1.B.Timer_Value
                                                    - ToUint8(c1.B.minute_count))]
             ELSE IF ~c1.B.is_Start_Timer /\ ~c1.B.is_start_to_cooling
             THEN [c1 EXCEPT !.T = FALSE, !.F = GPIO_PIN_RESET]
             ELSE c1
    ELSE c

\* line 790: the test that guards the short-click handler in STANDBY.
\* A click test that ignores the cooldown flag.
ButtonStandbyClickTestInCooling(c) ==
    c.B.Button_Press_Duration < SHORT_CLICK_MS

ButtonStandbyClickTest(c) ==
    /\ c.B.Button_Press_Duration < SHORT_CLICK_MS
    /\ ~c.B.is_start_to_cooling

\* lines 792-816: the handler once the test has passed.
ButtonStandbyClickBody(c) ==
    LET c1 == [c EXCEPT !.F = GPIO_PIN_SET,
                        !.B.is_Start_Timer = ~c.B.is_Start_Timer]
    IN  IF c1.B.is_Start_Timer
        THEN [c1 EXCEPT !.T = TRUE,
                        !.B.minute_count = ToInt8(c1.B.Timer_Value),
                        !.B.second_count = 0]
        ELSE IF /\ c1.B.Timer_Value - ToUint8(c1.B.minute_count) # 0
                /\ c1.B.second_count <= COOLING_STOP_SECOND
        THEN [c1 EXCEPT !.B.is_start_to_cooling = TRUE,
                        !.B.cooling_second =
                            StopCoolingSeconds(c1.B.Timer_Value
                                               - ToUint8(c1.B.minute_count))]
        ELSE IF ~c1.B.is_Start_Timer /\ ~c1.B.is_start_to_cooling
        THEN [c1 EXCEPT !.T = FALSE, !.F = GPIO_PIN_RESET]
        ELSE c1

\* lines 788-818: a short click in STANDBY toggles the timer.
ButtonStandbyClick(c) ==
    IF ButtonStandbyClickTest(c) THEN ButtonStandbyClickBody(c) ELSE c

\* A TIMER_SET click handler that ignores how long the button was down.
ButtonTimerSetClickAnyDuration(c, fo) ==
    LET v == ToUint8(c.B.Timer_Value + TIMER_STEP)
        nv == IF v > TIMER_MAX THEN TIMER_STEP ELSE v
    IN  [c EXCEPT !.B.Timer_Value = nv,
                  !.P = Timer_SaveToFlash(c.P, nv, fo),
                  !.B.Timer_Set_Start_Time = c.B.Button_Current_Time]

\* lines 820-836: a short click in TIMER_SET steps the configured minutes.
ButtonTimerSetClick(c, fo) ==
    IF c.B.Button_Press_Duration < SHORT_CLICK_MS
    THEN LET v == ToUint8(c.B.Timer_Value + TIMER_STEP)
             nv == IF v > TIMER_MAX THEN TIMER_STEP ELSE v
         IN  [c EXCEPT !.B.Timer_Value = nv,
                       !.P = Timer_SaveToFlash(c.P, nv, fo),
                       !.B.Timer_Set_Start_Time = c.B.Button_Current_Time]
    ELSE c

\* lines 771-842
ButtonReleaseDetect(c, fo) ==
    IF /\ c.B.Button_Prev_State = GPIO_PIN_RESET
       /\ c.B.Button_Current_State = GPIO_PIN_SET
       /\ c.L.button_stable_count >= DEBOUNCE_COUNT
    THEN LET c1 == [c EXCEPT !.B.Button_Press_Duration =
                                 c.B.Button_Current_Time
                                 - c.B.Button_Press_Start_Time,
                             !.B.is_pushed_changed = FALSE,
                             !.L.is_Button_Pressed = FALSE,
                             !.L.is_Button_Released = TRUE]
         IN  IF c1.B.Button_Press_Duration >= CLICK_MIN_MS
             THEN IF c1.B.Current_Button_State = BUTTON_STATE_STANDBY
                  THEN ButtonStandbyClick(c1)
                  ELSE IF c1.B.Current_Button_State = BUTTON_STATE_TIMER_SET
                  THEN ButtonTimerSetClick(c1, fo)
                  ELSE c1
             ELSE c1
    ELSE c

\* A long press that enters TIMER_SET without restarting the inactivity timer.
ButtonLongPressNoRestart(c, fo) ==
    IF /\ ~c.B.is_pushed_changed
       /\ c.L.is_Button_Pressed
       /\ (c.B.Button_Current_Time - c.B.Button_Press_Start_Time)
              >= LONG_PRESS_MS
    THEN IF /\ c.B.Current_Button_State = BUTTON_STATE_STANDBY
            /\ ~c.B.is_Start_Timer
         THEN [c EXCEPT !.B.is_pushed_changed = TRUE,
                        !.B.Current_Button_State = BUTTON_STATE_TIMER_SET]
         ELSE IF c.B.Current_Button_State = BUTTON_STATE_TIMER_SET
         THEN [c EXCEPT !.B.is_pushed_changed = TRUE,
                        !.B.Current_Button_State = BUTTON_STATE_STANDBY,
                        !.P = Timer_SaveToFlash(c.P, c.B.Timer_Value, fo)]
         ELSE c
    ELSE c

\* lines 844-863: the button held for 1.5 s.
ButtonLongPress(c, fo) ==
    IF /\ ~c.B.is_pushed_changed
       /\ c.L.is_Button_Pressed
       /\ (c.B.Button_Current_Time - c.B.Button_Press_Start_Time)
              >= LONG_PRESS_MS
    THEN IF /\ c.B.Current_Button_State = BUTTON_STATE_STANDBY
            /\ ~c.B.is_Start_Timer
         THEN [c EXCEPT !.B.is_pushed_changed = TRUE,
                        !.B.Current_Button_State = BUTTON_STATE_TIMER_SET,
                        !.B.Timer_Set_Start_Time = c.B.Button_Current_Time]
         ELSE IF c.B.Current_Button_State = BUTTON_STATE_TIMER_SET
         THEN [c EXCEPT !.B.is_pushed_changed = TRUE,
                        !.B.Current_Button_State = BUTTON_STATE_STANDBY,
                        !.P = Timer_SaveToFlash(c.P, c.B.Timer_Value, fo)]
         ELSE c
    ELSE c

\* lines 865-875: five seconds without a click leave TIMER_SET.
ButtonTimerSetTimeout(c, fo) ==
    IF /\ c.B.Current_Button_State = BUTTON_STATE_TIMER_SET
       /\ c.L.is_Button_Released
       /\ (c.B.Button_Current_Time - c.B.Timer_Set_Start_Time)
              >= TIMER_SET_TIMEOUT_MS
    THEN [c EXCEPT !.B.Current_Button_State = BUTTON_STATE_STANDBY,
                   !.P = Timer_SaveToFlash(c.P, c.B.Timer_Value, fo)]
    ELSE c

\* lines 877-881
ButtonPrevUpdate(c) ==
    IF c.L.button_stable_count >= DEBOUNCE_COUNT
    THEN [c EXCEPT !.B.Button_Prev_State = c.B.Button_Current_State]
    ELSE c

\* lines 738-884: the whole loop body.
ButtonTaskPass(c, raw, now, fo) ==
    ButtonPrevUpdate(
      ButtonTimerSetTimeout(
        ButtonLongPress(
          ButtonReleaseDetect(
            ButtonPressDetect(ButtonDebounce(c, raw, now)), fo), fo), fo))

(***************************************************************************)
(* n consecutive passes of the button task, 10 ms apart, all sampling the  *)
(* same pin level.  A pass that changes nothing but Button_Current_Time is *)
(* idle; the time-dependent tests of the loop are all of the form          *)
(* "elapsed >= limit", so if the pass at a later time is idle, every pass  *)
(* before it is idle too.  Idle passes are skipped in one step up to the   *)
(* pass before the next limit; every other pass is executed.               *)
(***************************************************************************)
PollsBefore(deadline, t) ==
    IF deadline > t THEN (deadline - t - 1) \div BUTTON_POLL_MS ELSE 0

SetMax(S) == CHOOSE x \in S : \A y \in S : y <= x

RECURSIVE RunPolls(_, _, _, _, _)
RunPolls(c, raw, n, t, fo) ==
    IF n = 0 THEN c
    ELSE LET t1 == t + BUTTON_POLL_MS
             c1 == ButtonTaskPass(c, raw, t1, fo)
             at(k) == t1 + k * BUTTON_POLL_MS
             idle(k) == ButtonTaskPass(c1, raw, at(k), fo)
                          = [c1 EXCEPT !.B.Button_Current_Time = at(k)]
             cands == {k \in {n - 1,
                              PollsBefore(c1.B.Button_Press_Start_Time
                                          + LONG_PRESS_MS, t1),
                              PollsBefore(c1.B.Timer_Set_Start_Time
                                          + TIMER_SET_TIMEOUT_MS, t1)} :
                          k >= 1 /\ k <= n - 1 /\ idle(k)}
         IN  IF cands = {}
             THEN RunPolls(c1, raw, n - 1, t1, fo)
             ELSE LET j == SetMax(cands)
                  IN  RunPolls([c1 EXCEPT !.B.Button_Current_Time = at(j)],
                               raw, n - 1 - j, at(j), fo)

Bundle == [B |-> Button_State, L |-> btn, T |-> MainTimerActive,
           F |-> FAN_ONOFF, P |-> flash]

\* What a handler did to the run state, for the history variable.
Outcome(was, now, name) ==
    IF ~was.is_Start_Timer /\ now.is_Start_Timer THEN name \o "_start"
    ELSE IF was.is_Start_Timer /\ ~now.is_Start_Timer THEN name \o "_stop"
    ELSE name

\* Flash outcomes explored while the button task runs.
ButtonFlashOutcomes == {"ok"}

\* StartButtonTask over one maximal period of constant pin level.
StartButtonTask(n, fo) ==
    LET raw == 1 - raw_level
        now == tick + n * BUTTON_POLL_MS
        c == RunPolls(Bundle, raw, n, tick, fo)
    IN  /\ now <= Horizon
        /\ (~Button_State.is_Start_Timer /\ c.B.is_Start_Timer)
               => c.B.Timer_Value <= MaxRunMinutes
        /\ raw_level' = raw
        /\ tick' = now
        /\ Button_State' = c.B
        /\ btn' = c.L
        /\ MainTimerActive' = c.T
        /\ FAN_ONOFF' = c.F
        /\ flash' = c.P
        /\ last_op' = Outcome(Button_State, c.B, "button")
        /\ run_ticks' = IF ~Button_State.is_Start_Timer /\ c.B.is_Start_Timer
                           /\ Button_State.Current_Button_State = BUTTON_STATE_STANDBY
                        THEN 0 ELSE -1
        /\ UNCHANGED UART_State
        /\ UNCHANGED adcVars
        /\ UNCHANGED batVars
        /\ UNCHANGED call
        /\ Wrote("button", c.B)
        /\ UNCHANGED <<rx, click, fw>>

ButtonPeriod ==
    \E n \in (IF raw_level = GPIO_PIN_SET THEN PressRuns ELSE ReleaseRuns) :
        \E fo \in ButtonFlashOutcomes : StartButtonTask(n, fo)

(***************************************************************************)
(* freertos.c Callback01: the 1 s MainTimer callback                        *)
(***************************************************************************)
\* lines 1329-1338
ExpiryCoolingSeconds(timer_value) ==
    LET cooling_time == timer_value * 10
    IN  IF cooling_time < COOLING_MIN THEN COOLING_SHORT
        ELSE IF cooling_time > COOLING_MAX THEN COOLING_MAX
        ELSE cooling_time

\* A callback that ends the cooldown without switching the fan off.
Callback01BodyFanStays(B, T, F) ==
    IF B.is_Start_Timer
    THEN IF B.second_count > 0
         THEN [B |-> [B EXCEPT !.second_count = ToInt8(B.second_count - 1)],
               T |-> T, F |-> F, what |-> "tick"]
         ELSE IF B.minute_count > 0
         THEN [B |-> [B EXCEPT !.minute_count = ToInt8(B.minute_count - 1),
                               !.second_count = 59],
               T |-> T, F |-> F, what |-> "tick"]
         ELSE [B |-> [B EXCEPT !.is_Start_Timer = FALSE,
                               !.is_start_to_cooling = TRUE,
                               !.cooling_second =
                                   ToInt8(ExpiryCoolingSeconds(B.Timer_Value))],
               T |-> T, F |-> F, what |-> "expire"]
    ELSE IF B.is_start_to_cooling
    THEN IF ToInt8(B.cooling_second - 1) <= 0
         THEN [B |-> [B EXCEPT !.cooling_second = ToInt8(B.cooling_second - 1),
                               !.is_start_to_cooling = FALSE],
               T |-> FALSE, F |-> F, what |-> "cooled"]
         ELSE [B |-> [B EXCEPT !.cooling_second = ToInt8(B.cooling_second - 1)],
               T |-> T, F |-> F, what |-> "cooling"]
    ELSE [B |-> B, T |-> T, F |-> F, what |-> "idle"]

\* lines 1307-1354: returns [B, T, F, what].
Callback01Body(B, T, F) ==
    IF B.is_Start_Timer
    THEN IF B.second_count > 0
         THEN [B |-> [B EXCEPT !.second_count = ToInt8(B.second_count - 1)],
               T |-> T, F |-> F, what |-> "tick"]
         ELSE IF B.minute_count > 0
         THEN [B |-> [B EXCEPT !.minute_count = ToInt8(B.minute_count - 1),
                               !.second_count = 59],
               T |-> T, F |-> F, what |-> "tick"]
         ELSE [B |-> [B EXCEPT !.is_Start_Timer = FALSE,
                               !.is_start_to_cooling = TRUE,
                               !.cooling_second =
                                   ToInt8(ExpiryCoolingSeconds(B.Timer_Value))],
               T |-> T, F |-> F, what |-> "expire"]
    ELSE IF B.is_start_to_cooling
    THEN LET cs == ToInt8(B.cooling_second - 1)
         IN  IF cs <= 0
             THEN [B |-> [B EXCEPT !.cooling_second = cs,
                                   !.is_start_to_cooling = FALSE],
                   T |-> FALSE, F |-> GPIO_PIN_RESET, what |-> "cooled"]
             ELSE [B |-> [B EXCEPT !.cooling_second = cs],
                   T |-> T, F |-> F, what |-> "cooling"]
    ELSE [B |-> B, T |-> T, F |-> F, what |-> "idle"]

Callback01 ==
    /\ MainTimerActive
    /\ LET r == Callback01Body(Button_State, MainTimerActive, FAN_ONOFF)
       IN  /\ Button_State' = r.B
           /\ MainTimerActive' = r.T
           /\ FAN_ONOFF' = r.F
           /\ last_op' = "callback_" \o r.what
           /\ run_ticks' = IF run_ticks >= 0 /\ Button_State.is_Start_Timer
                           THEN run_ticks + 1 ELSE -1
    /\ UNCHANGED <<btn, tick, raw_level, flash, UART_State>>
    /\ UNCHANGED adcVars
    /\ UNCHANGED batVars
    /\ UNCHANGED call
    /\ Wrote("callback", Callback01Body(Button_State, MainTimerActive, FAN_ONOFF).B)
    /\ UNCHANGED <<rx, click, fw>>

(***************************************************************************)
(* freertos.c serial transmit path.  A handler works on the bundle         *)
(*   [B: Button_State, T: MainTimer active, F: FAN_ONOFF, U: UART_State,   *)
(*    owner: holder of UartMutex, tx: what has been written to the UART];  *)
(* a tx entry is [kind, fields, acquired]: the line written, the values    *)
(* formatted into it, and whether the writer's own osMutexAcquire had      *)
(* returned osOK.                                                          *)
(***************************************************************************)
\* UartMutex is created with attr_bits = osMutexPrioInherit only (lines
\* 86-91): it is not recursive, so an acquire by the task that already holds
\* it waits out its timeout and fails like any other.
osMutexAcquire(owner, who) ==
    [ok |-> owner = "none", owner |-> IF owner = "none" THEN who ELSE owner]

HAL_UART_Transmit(s, kind, fields, acquired) ==
    [s EXCEPT !.tx = Append(@, [kind |-> kind, fields |-> fields,
                                acquired |-> acquired])]

\* lines 1198-1211: on success transmit and release; on failure transmit too.
\* In a bundle marked `direct` the function is the one of uart_protocol.c
\* (lines 268-273), which transmits without touching the mutex.
UART_SendResponse(s, response) ==
    IF s.direct THEN HAL_UART_Transmit(s, response, <<>>, FALSE)
    ELSE IF osMutexAcquire(s.owner, "UART_SendResponse").ok
    THEN HAL_UART_Transmit(s, response, <<>>, TRUE)
    ELSE HAL_UART_Transmit(s, response, <<>>, FALSE)

\* lines 1147-1154: (uint8_t)(float + 0.5f), then the cap at 100.
StatusBatteryPercent(vbat) ==
    LET p == IF vbat > 500
             THEN ToUint8(((vbat - 500) * 200 + 2200) \div 4400)
             ELSE 0
    IN  IF p > 100 \/ vbat > 2650 THEN 100 ELSE p

\* lines 1157-1166
StatusString(B) ==
    IF B.Current_Button_State = BUTTON_STATE_TIMER_SET THEN "SETTING"
    ELSE IF B.is_start_to_cooling THEN "COOLING"
    ELSE IF B.is_Start_Timer THEN "RUNNING"
    ELSE "STANDBY"

\* lines 1172-1183: <<timer_minutes, timer_seconds>>
StatusTimerField(B) ==
    IF B.Current_Button_State = BUTTON_STATE_TIMER_SET
    THEN <<ToUint8(B.Timer_Value), 0>>
    ELSE IF B.is_start_to_cooling
    THEN <<ToUint8(B.cooling_second \div 60), ToUint8(B.cooling_second % 60)>>
    ELSE <<ToUint8(B.minute_count), ToUint8(B.second_count)>>

\* lines 1185-1188: the values snprintf formats into
\* "STATUS:BAT:%d%%,TIMER:%02d:%02d,STATUS:%s,L1:%d,L2:%d\n".
StatusFields(B, A) ==
    <<StatusBatteryPercent(A.VBat_ADC_Value),
      StatusTimerField(B)[1], StatusTimerField(B)[2], StatusString(B),
      IF A.LED1_State # LED_STATE_MIDDLE THEN 1 ELSE 0,
      IF A.LED2_State # LED_STATE_MIDDLE THEN 1 ELSE 0>>

\* lines 1134-1193
UART_SendStatusData(s, A) ==
    IF osMutexAcquire(s.owner, "UART_SendStatusData").ok
    THEN HAL_UART_Transmit(s, "STATUS", StatusFields(s.B, A), TRUE)
    ELSE s

\* lines 1067-1129; has_image is Paint.Image != NULL.  The header, the 32
\* chunks and the footer count as one entry.
UART_SendScreenData(s, has_image) ==
    IF osMutexAcquire(s.owner, "UART_SendScreenData").ok
    THEN IF has_image
         THEN HAL_UART_Transmit(s, "SCREEN_START", <<>>, TRUE)
         ELSE HAL_UART_Transmit(s, "ERROR:No screen data available", <<>>, TRUE)
    ELSE s

(***************************************************************************)
(* freertos.c serial command handlers, on the same bundle                  *)
(***************************************************************************)
\* lines 1216-1230; scanned is the number of conversions sscanf has made,
\* minutes and seconds what it has stored.
UART_ProcessTimerSetBody(s, scanned, minutes, seconds) ==
    IF scanned = 2
    THEN IF minutes >= 0 /\ minutes <= 99 /\ seconds >= 0 /\ seconds <= 59
         THEN UART_SendResponse([s EXCEPT !.B.Timer_Value = ToUint8(minutes)],
                                "OK:Timer set")
         ELSE UART_SendResponse(s, "ERROR:Invalid time range")
    ELSE UART_SendResponse(s, "ERROR:Invalid time format")

\* A start handler that only looks at is_Start_Timer.
UART_ProcessTimerStartInCooling(s) ==
    IF ~s.B.is_Start_Timer
    THEN UART_SendResponse(
             [s EXCEPT !.B.is_Start_Timer = TRUE,
                       !.B.minute_count = ToInt8(s.B.Timer_Value),
                       !.B.second_count = 0,
                       !.T = TRUE,
                       !.F = GPIO_PIN_SET],
             "OK:Timer started")
    ELSE UART_SendResponse(s, "ERROR:Timer already running")

\* lines 1235-1252
UART_ProcessTimerStartBody(s) ==
    IF ~s.B.is_Start_Timer /\ ~s.B.is_start_to_cooling
    THEN UART_SendResponse(
             [s EXCEPT !.B.is_Start_Timer = TRUE,
                       !.B.minute_count = ToInt8(s.B.Timer_Value),
                       !.B.second_count = 0,
                       !.T = TRUE,
                       !.F = GPIO_PIN_SET],
             "OK:Timer started")
    ELSE UART_SendResponse(s, "ERROR:Timer already running")

\* lines 1257-1278
UART_ProcessTimerStopBody(s) ==
    IF s.B.is_Start_Timer
    THEN LET B1 == [s.B EXCEPT !.is_Start_Timer = FALSE]
         IN  IF /\ B1.Timer_Value - B1.minute_count # 0
                /\ B1.second_count <= COOLING_STOP_SECOND
             THEN UART_SendResponse(
                      [s EXCEPT !.B = [B1 EXCEPT !.is_start_to_cooling = TRUE,
                                                 !.cooling_second =
                                                     StopCoolingSeconds(B1.Timer_Value
                                                                        - B1.minute_count)]],
                      "OK:Timer stopped, cooling started")
             ELSE UART_SendResponse(
                      [s EXCEPT !.B = B1, !.T = FALSE, !.F = GPIO_PIN_RESET],
                      "OK:Timer stopped")
    ELSE UART_SendResponse(s, "ERROR:Timer not running")

\* A reset that leaves the fan pin alone.
UART_ProcessResetKeepsFan(s) ==
    UART_SendResponse(
        [s EXCEPT !.B.is_Start_Timer = FALSE,
                  !.B.is_start_to_cooling = FALSE,
                  !.B.Current_Button_State = BUTTON_STATE_STANDBY,
                  !.T = FALSE,
                  !.U.monitoring_enabled = 0,
                  !.U.auto_screen_update = 0],
        "OK:System reset")

\* lines 1283-1300
UART_ProcessResetBody(s) ==
    UART_SendResponse(
        [s EXCEPT !.B.is_Start_Timer = FALSE,
                  !.B.is_start_to_cooling = FALSE,
                  !.B.Current_Button_State = BUTTON_STATE_STANDBY,
                  !.T = FALSE,
                  !.F = GPIO_PIN_RESET,
                  !.U.monitoring_enabled = 0,
                  !.U.auto_screen_update = 0],
        "OK:System reset")

(***************************************************************************)
(* freertos.c command lines.  A byte is a one-character string; a C string *)
(* is the sequence of its bytes before the terminating NUL.                *)
(***************************************************************************)
NUL == "NUL"
LF == "\n"
CR == "\r"

Str_GET_SCREEN ==
    <<"G", "E", "T", "_", "S", "C", "R", "E", "E", "N">>
Str_GET_STATUS ==
    <<"G", "E", "T", "_", "S", "T", "A", "T", "U", "S">>
Str_GET_SIMPLE ==
    <<"G", "E", "T", "_", "S", "I", "M", "P", "L", "E">>
Str_START_MONITOR ==
    <<"S", "T", "A", "R", "T", "_", "M", "O", "N", "I", "T", "O", "R">>
Str_STOP_MONITOR ==
    <<"S", "T", "O", "P", "_", "M", "O", "N", "I", "T", "O", "R">>
Str_SET_TIMER_prefix ==
    <<"S", "E", "T", "_", "T", "I", "M", "E", "R", ":">>
Str_START_TIMER ==
    <<"S", "T", "A", "R", "T", "_", "T", "I", "M", "E", "R">>
Str_STOP_TIMER ==
    <<"S", "T", "O", "P", "_", "T", "I", "M", "E", "R">>
Str_RESET ==
    <<"R", "E", "S", "E", "T">>
Str_PING ==
    <<"P", "I", "N", "G">>
Str_TEST ==
    <<"T", "E", "S", "T">>

\* Index of the first c in seq, 0 when there is none (strchr).
FirstIndex(seq, c) ==
    IF \E i \in 1..Len(seq) : seq[i] = c
    THEN CHOOSE i \in 1..Len(seq) :
             seq[i] = c /\ \A j \in 1..(i - 1) : seq[j] # c
    ELSE 0

\* seq cut before its first c (`*strchr(..) = '\0'`, and the end of a C string).
CutAt(seq, c) ==
    IF FirstIndex(seq, c) = 0 THEN seq
    ELSE SubSeq(seq, 1, FirstIndex(seq, c) - 1)

\* strncmp(str, prefix, strlen(prefix)) == 0
HasPrefix(str, prefix) ==
    Len(str) >= Len(prefix) /\ SubSeq(str, 1, Len(prefix)) = prefix

Digits == <<"0", "1", "2", "3", "4", "5", "6", "7", "8", "9">>
IsDigit(c) == \E d \in 1..10 : Digits[d] = c
DigitValue(c) == (CHOOSE d \in 1..10 : Digits[d] = c) - 1

\* Number of leading decimal digits of str.
RECURSIVE DigitRun(_)
DigitRun(str) ==
    IF str # <<>> /\ IsDigit(Head(str)) THEN 1 + DigitRun(Tail(str)) ELSE 0

RECURSIVE DigitsValue(_, _)
DigitsValue(str, acc) ==
    IF str = <<>> THEN acc
    ELSE DigitsValue(Tail(str), acc * 10 + DigitValue(Head(str)))

\* One %d conversion of sscanf: white space, an optional sign, digits.
ScanInt(str) ==
    LET body == IF str # <<>> /\ Head(str) = " " THEN Tail(str) ELSE str
        signed == body # <<>> /\ Head(body) \in {"-", "+"}
        digits == IF signed THEN Tail(body) ELSE body
        n == DigitRun(digits)
        v == DigitsValue(SubSeq(digits, 1, n), 0)
    IN  [ok |-> n > 0,
         value |-> IF signed /\ Head(body) = "-" THEN 0 - v ELSE v,
         rest |-> SubSeq(digits, n + 1, Len(digits))]

\* sscanf(time_str, "%d:%d", &minutes, &seconds): the number of conversions
\* made and the values stored (0 stands for a value that was not stored).
ScanTime(time_str) ==
    LET a == ScanInt(time_str)
        b == IF a.ok /\ a.rest # <<>> /\ Head(a.rest) = ":"
             THEN ScanInt(Tail(a.rest))
             ELSE [ok |-> FALSE, value |-> 0, rest |-> <<>>]
    IN  [scanned |-> IF ~a.ok THEN 0 ELSE IF ~b.ok THEN 1 ELSE 2,
         minutes |-> IF a.ok THEN a.value ELSE 0,
         seconds |-> IF b.ok THEN b.value ELSE 0]

EmptyCmdBuffer == [i \in 1..CMD_BUFFER_SIZE |-> NUL]

\* lines 981-987: the command as the dispatcher compares it.
CommandString(U) ==
    CutAt(CutAt(CutAt(U.cmd_buffer, NUL), LF), CR)

\* lines 989-1054: the branch taken for cmd_str, with UartMutex held.
UART_Dispatch(h, cmd_str, A, has_image) ==
    IF cmd_str = Str_GET_SCREEN THEN UART_SendScreenData(h, has_image)
    ELSE IF cmd_str = Str_GET_STATUS THEN UART_SendStatusData(h, A)
    ELSE IF cmd_str = Str_GET_SIMPLE
    THEN HAL_UART_Transmit(h, "SCREEN_START", <<>>, TRUE)
    ELSE IF cmd_str = Str_START_MONITOR
    THEN UART_SendResponse([h EXCEPT !.U.monitoring_enabled = 1,
                                     !.U.auto_screen_update = 1],
                           "OK:Monitoring started")
    ELSE IF cmd_str = Str_STOP_MONITOR
    THEN UART_SendResponse([h EXCEPT !.U.monitoring_enabled = 0,
                                     !.U.auto_screen_update = 0],
                           "OK:Monitoring stopped")
    ELSE IF HasPrefix(cmd_str, Str_SET_TIMER_prefix)
    THEN UART_ProcessTimerSetBody(
             h,
             ScanTime(SubSeq(cmd_str, 11, Len(cmd_str))).scanned,
             ScanTime(SubSeq(cmd_str, 11, Len(cmd_str))).minutes,
             ScanTime(SubSeq(cmd_str, 11, Len(cmd_str))).seconds)
    ELSE IF cmd_str = Str_START_TIMER THEN UART_ProcessTimerStartBody(h)
    ELSE IF cmd_str = Str_STOP_TIMER THEN UART_ProcessTimerStopBody(h)
    ELSE IF cmd_str = Str_RESET THEN UART_ProcessResetBody(h)
    ELSE IF cmd_str = Str_PING THEN UART_SendResponse(h, "PONG")
    ELSE IF cmd_str = Str_TEST THEN UART_SendResponse(h, "TEST:OK")
    ELSE UART_SendResponse(h, "ERROR:Unknown command")

\* lines 972-1062
UART_ProcessCommand(s, A, has_image) ==
    IF ~osMutexAcquire(s.owner, "UART_ProcessCommand").ok THEN s
    ELSE [UART_Dispatch([s EXCEPT !.owner = "UART_ProcessCommand"],
                        CommandString(s.U), A, has_image)
              EXCEPT !.U.cmd_buffer = EmptyCmdBuffer,
                     !.U.cmd_index = 0,
                     !.owner = "none"]

\* lines 1362-1389, for the byte received_char.
RxCplt(U, received_char) ==
    IF received_char \in {LF, CR}
    THEN IF U.cmd_index > 0
         THEN [U EXCEPT !.cmd_buffer[U.cmd_index + 1] = NUL,
                        !.command_ready = 1]
         ELSE U
    ELSE IF U.cmd_index < CMD_BUFFER_SIZE - 1
         THEN [U EXCEPT !.cmd_buffer[U.cmd_index + 1] = received_char,
                        !.cmd_index = U.cmd_index + 1]
         ELSE [U EXCEPT !.cmd_index = 0]

\* lines 931-962: one pass of the StartUartTask loop; screen_due tells that
\* 100 ms have passed since last_screen_update.
UartTaskPass(s, A, has_image, screen_due) ==
    LET c == IF s.U.command_ready # 0
             THEN [UART_ProcessCommand(s, A, has_image)
                       EXCEPT !.U.command_ready = 0]
             ELSE s
    IN  IF c.U.monitoring_enabled # 0 /\ c.U.auto_screen_update # 0 /\ screen_due
        THEN UART_SendScreenData(c, has_image)
        ELSE c

\* The shared state as a serial handler finds it; owner is the holder of
\* UartMutex at that point.
SerialBundle(owner) ==
    [B |-> Button_State, T |-> MainTimerActive, F |-> FAN_ONOFF,
     U |-> UART_State, owner |-> owner, tx |-> <<>>, direct |-> FALSE,
     mx |-> <<>>]

\* A handler's result written back; last_op is the last line it transmitted.
SerialCommit(s, ticks) ==
    /\ Button_State' = s.B
    /\ MainTimerActive' = s.T
    /\ FAN_ONOFF' = s.F
    /\ UART_State' = s.U
    /\ last_op' = IF s.tx = <<>> THEN "serial" ELSE s.tx[Len(s.tx)].kind
    /\ run_ticks' = ticks
    /\ Wrote("serial", s.B)
    /\ UNCHANGED <<btn, tick, raw_level, flash, rx, click, fw>>
    /\ UNCHANGED adcVars
    /\ UNCHANGED batVars

\* START_TIMER starts an undisturbed run when it starts the timer in STANDBY.
SerialRunTicks(s) ==
    IF /\ ~Button_State.is_Start_Timer /\ s.B.is_Start_Timer
       /\ Button_State.Current_Button_State = BUTTON_STATE_STANDBY
    THEN 0 ELSE -1

(***************************************************************************)
(* The dispatcher's timer branches, taken for a command line that has      *)
(* arrived whole: UART_ProcessCommand holds UartMutex when it calls them.  *)
(***************************************************************************)
\* the arguments are the two integers sscanf has read.
UART_ProcessTimerSet(minutes, seconds) ==
    /\ SerialCommit(UART_ProcessTimerSetBody(SerialBundle("UART_ProcessCommand"),
                                             2, minutes, seconds), -1)
    /\ UNCHANGED call

UART_ProcessTimerStart ==
    /\ (~Button_State.is_Start_Timer /\ ~Button_State.is_start_to_cooling)
           => Button_State.Timer_Value <= MaxRunMinutes
    /\ SerialCommit(UART_ProcessTimerStartBody(SerialBundle("UART_ProcessCommand")),
                    SerialRunTicks(UART_ProcessTimerStartBody(
                                       SerialBundle("UART_ProcessCommand"))))
    /\ UNCHANGED call

UART_ProcessTimerStop ==
    /\ SerialCommit(UART_ProcessTimerStopBody(SerialBundle("UART_ProcessCommand")), -1)
    /\ UNCHANGED call

UART_ProcessReset ==
    /\ SerialCommit(UART_ProcessResetBody(SerialBundle("UART_ProcessCommand")), -1)
    /\ UNCHANGED call

(***************************************************************************)
(* The serial line byte by byte: the receive interrupt and the task loop   *)
(***************************************************************************)
\* The host sends the next byte of its line; with no line under way it
\* starts one of `lines`.  rx.only_long tells that no line started so far
\* fits the command buffer, rx.cur holds the bytes of the line under way that
\* have been delivered, rx.last the bytes of the last line delivered whole.
HostByte(lines) ==
    \E l \in lines :
        LET starting == rx.line = <<>>
            line == IF starting THEN l ELSE rx.line
            fits == FirstIndex(line, LF) - 1 <= CMD_BUFFER_SIZE - 1
        IN  /\ starting => rx.sent < MaxRxLines
            /\ UART_State' = RxCplt(UART_State, Head(line))
            /\ rx' = [line |-> Tail(line),
                      sent |-> IF starting THEN rx.sent + 1 ELSE rx.sent,
                      only_long |-> IF starting THEN rx.only_long /\ ~fits
                                    ELSE rx.only_long,
                      cur |-> IF Head(line) = LF THEN <<>>
                              ELSE Append(rx.cur, Head(line)),
                      last |-> IF Head(line) = LF THEN rx.cur ELSE rx.last]
            /\ last_op' = "rx"
            /\ UNCHANGED <<Button_State, btn, tick, raw_level, MainTimerActive,
                           FAN_ONOFF, flash, run_ticks, call, click, writers, fw>>
            /\ UNCHANGED adcVars
            /\ UNCHANGED batVars

\* One pass of the task loop, 20 ms after the last one.
StartUartTask(has_image, screen_due) ==
    LET s == UartTaskPass(SerialBundle("none"), Adc_State, has_image, screen_due)
    IN  /\ (~Button_State.is_Start_Timer /\ s.B.is_Start_Timer)
               => Button_State.Timer_Value <= MaxRunMinutes
        /\ SerialCommit(s, IF UART_State.command_ready # 0
                           THEN SerialRunTicks(s) ELSE run_ticks)
        /\ call' = [fn |-> IF UART_State.command_ready # 0
                           THEN "UART_ProcessCommand" ELSE "StartUartTask",
                    arg |-> IF UART_State.command_ready # 0
                            THEN <<CommandString(UART_State)>> ELSE <<>>,
                    ok |-> TRUE, res |-> s.tx, fresh |-> FALSE]

(***************************************************************************)
(* uart_protocol.c: the serial functions of the protocol module, on the    *)
(* same bundle with `direct` set.  mx is the log of the calls made on      *)
(* UartMutex: [op, by, held], held being the holder found by the call.     *)
(***************************************************************************)
Str_SET_UPDATE_MODE_prefix ==
    <<"S", "E", "T", "_", "U", "P", "D", "A", "T", "E", "_", "M", "O", "D", "E", ":">>
Str_REQUEST_RESPONSE ==
    <<"R", "E", "Q", "U", "E", "S", "T", "_", "R", "E", "S", "P", "O", "N", "S", "E">>
Str_AUTO == <<"A", "U", "T", "O">>
Str_MANUAL == <<"M", "A", "N", "U", "A", "L">>

\* osMutexAcquire: taken when free, else the timeout runs out.
MutexAcquire(s, who) ==
    [s EXCEPT !.owner = osMutexAcquire(s.owner, who).owner,
              !.mx = Append(@, [op |-> "acquire", by |-> who, held |-> s.owner])]

\* osMutexRelease: the mutex is free afterwards.
osMutexRelease(s, who) ==
    [s EXCEPT !.owner = "none",
              !.mx = Append(@, [op |-> "release", by |-> who, held |-> s.owner])]

\* uart_protocol.c lines 196-263; the two voltage fields of the line are not
\* carried.
UART_SendStatusData_protocol(s, A) ==
    IF osMutexAcquire(s.owner, "UART_SendStatusData").ok
    THEN osMutexRelease(
             HAL_UART_Transmit(
                 MutexAcquire(s, "UART_SendStatusData"), "STATUS",
                 <<StatusTimerField(s.B)[1], StatusTimerField(s.B)[2],
                   StatusString(s.B),
                   IF A.LED1_State # LED_STATE_MIDDLE THEN 1 ELSE 0,
                   IF A.LED2_State # LED_STATE_MIDDLE THEN 1 ELSE 0,
                   A.VBat_ADC_Value>>,
                 TRUE),
             "UART_SendStatusData")
    ELSE MutexAcquire(s, "UART_SendStatusData")

\* Outcomes of the HAL transmits of one screen transfer.
ScreenOutcomes == {"ok", "header_fail", "image_fail"}

\* uart_protocol.c lines 115-190; tx_ok is the outcome of the transmits of
\* the header and of the image.  The function makes no acquire.
UART_SendScreenData_protocol(s, A, has_image, tx_ok) ==
    IF ~has_image
    THEN osMutexRelease(
             HAL_UART_Transmit(s, "ERROR:No screen data available", <<>>, FALSE),
             "UART_SendScreenData")
    ELSE IF tx_ok = "header_fail"
    THEN osMutexRelease(s, "UART_SendScreenData")
    ELSE IF tx_ok = "image_fail"
    THEN osMutexRelease(
             HAL_UART_Transmit(
                 HAL_UART_Transmit(s, "SCREEN_START", <<>>, FALSE),
                 "TRANSMISSION_ERROR", <<>>, FALSE),
             "UART_SendScreenData")
    ELSE UART_SendStatusData_protocol(
             osMutexRelease(
                 HAL_UART_Transmit(s, "SCREEN_START", <<>>, FALSE),
                 "UART_SendScreenData"),
             A)

\* uart_protocol.c lines 381-427; mode_str is the text after the prefix.
UART_ProcessUpdateMode(s, mode_str) ==
    LET field == CutAt(mode_str, ",")
        mode == SubSeq(field, 1, Min2(Len(field), 31))
    IN  IF mode = <<>>
        THEN UART_SendResponse(s, "ERROR:Invalid update mode format")
        ELSE IF mode = Str_REQUEST_RESPONSE \/ mode = Str_AUTO
        THEN UART_SendResponse([s EXCEPT !.U.monitoring_enabled = 1],
                               "OK:Request-Response mode set")
        ELSE IF mode = Str_MANUAL
        THEN UART_SendResponse([s EXCEPT !.U.monitoring_enabled = 0],
                               "OK:Manual mode set")
        ELSE UART_SendResponse(s, "ERROR:Unknown update mode")

\* uart_protocol.c lines 32-43: the length left once trailing newlines,
\* carriage returns and blanks are cut.
RECURSIVE StripTrailing(_, _)
StripTrailing(buf, n) ==
    IF n = 0 THEN 0
    ELSE IF buf[n] \in {LF, CR, " "} THEN StripTrailing(buf, n - 1)
    ELSE n

\* uart_protocol.c lines 359-376: RESET; auto_screen_update is left alone.
UART_ProcessReset_protocol(s) ==
    UART_SendResponse(
        [s EXCEPT !.B.is_Start_Timer = FALSE,
                  !.B.is_start_to_cooling = FALSE,
                  !.B.Current_Button_State = BUTTON_STATE_STANDBY,
                  !.T = FALSE,
                  !.F = GPIO_PIN_RESET,
                  !.U.monitoring_enabled = 0],
        "OK:System reset")

\* uart_protocol.c lines 16-110.
UART_ProcessCommand_protocol(s, A, has_image, tx_ok) ==
    LET n == StripTrailing(s.U.cmd_buffer, s.U.cmd_index)
        cmd_str == SubSeq(s.U.cmd_buffer, 1, n)
        buf == [i \in 1..CMD_BUFFER_SIZE |->
                   IF i > n /\ i <= s.U.cmd_index + 1 THEN NUL
                   ELSE s.U.cmd_buffer[i]]
        h == [s EXCEPT !.U.cmd_buffer = buf, !.U.cmd_index = n]
        d == IF cmd_str = Str_GET_SCREEN
             THEN UART_SendScreenData_protocol(h, A, has_image, tx_ok)
             ELSE IF cmd_str = Str_GET_STATUS
             THEN UART_SendStatusData_protocol(h, A)
             ELSE IF cmd_str = Str_PING THEN UART_SendResponse(h, "PONG")
             ELSE IF cmd_str = Str_TEST THEN UART_SendResponse(h, "TEST:OK")
             ELSE IF cmd_str = Str_START_MONITOR
             THEN UART_SendResponse([h EXCEPT !.U.monitoring_enabled = 1],
                                    "OK:Monitoring started")
             ELSE IF cmd_str = Str_STOP_MONITOR
             THEN UART_SendResponse([h EXCEPT !.U.monitoring_enabled = 0],
                                    "OK:Monitoring stopped")
             ELSE IF HasPrefix(cmd_str, Str_SET_UPDATE_MODE_prefix) /\ n > 16
             THEN UART_ProcessUpdateMode(h, SubSeq(cmd_str, 17, n))
             ELSE IF HasPrefix(cmd_str, Str_SET_TIMER_prefix) /\ n > 10
             THEN UART_ProcessTimerSetBody(
                      h,
                      ScanTime(SubSeq(cmd_str, 11, n)).scanned,
                      ScanTime(SubSeq(cmd_str, 11, n)).minutes,
                      ScanTime(SubSeq(cmd_str, 11, n)).seconds)
             ELSE IF cmd_str = Str_START_TIMER THEN UART_ProcessTimerStartBody(h)
             ELSE IF cmd_str = Str_STOP_TIMER THEN UART_ProcessTimerStopBody(h)
             ELSE IF cmd_str = Str_RESET THEN UART_ProcessReset_protocol(h)
             ELSE IF cmd_str = Str_GET_SIMPLE
             THEN UART_SendResponse(h, "SIMPLE:Test pattern sent")
             ELSE h
    IN  IF s.U.cmd_index = 0 THEN [s EXCEPT !.U.command_ready = 0]
        ELSE IF n = 0 THEN [h EXCEPT !.U.command_ready = 0]
        ELSE [d EXCEPT !.U.cmd_index = 0, !.U.command_ready = 0]

\* freertos.c lines 931-962 with the functions of uart_protocol.c: one pass
\* of the StartUartTask loop.
UartTaskPass_protocol(s, A, has_image, tx_ok, screen_due) ==
    LET c == IF s.U.command_ready # 0
             THEN [UART_ProcessCommand_protocol(s, A, has_image, tx_ok)
                       EXCEPT !.U.command_ready = 0]
             ELSE s
    IN  IF c.U.monitoring_enabled # 0 /\ c.U.auto_screen_update # 0 /\ screen_due
        THEN UART_SendScreenData_protocol(c, A, has_image, tx_ok)
        ELSE c

\* One pass of the task loop in the build that takes the serial functions
\* from uart_protocol.c; the pass's calls on UartMutex are recorded in
\* call.res, and call.ok tells that the mutex is free when the pass ends.
StartUartTask_protocol(has_image, tx_ok, screen_due) ==
    LET s == UartTaskPass_protocol([SerialBundle("none") EXCEPT !.direct = TRUE],
                                   Adc_State, has_image, tx_ok, screen_due)
    IN  /\ (~Button_State.is_Start_Timer /\ s.B.is_Start_Timer)
               => Button_State.Timer_Value <= MaxRunMinutes
        /\ SerialCommit(s, IF UART_State.command_ready # 0
                           THEN SerialRunTicks(s) ELSE run_ticks)
        /\ call' = [fn |-> IF UART_State.command_ready # 0
                           THEN "UART_ProcessCommand" ELSE "StartUartTask",
                    arg |-> IF UART_State.command_ready # 0
                            THEN <<SubSeq(UART_State.cmd_buffer, 1,
                                          StripTrailing(UART_State.cmd_buffer,
                                                        UART_State.cmd_index))>>
                            ELSE <<>>,
                    ok |-> s.owner = "none", res |-> s.mx, fresh |-> FALSE]

(***************************************************************************)
(* freertos.c StartAdcTask: one pass of the loop body                      *)
(***************************************************************************)
\* lines 490-494
LedClassify(v) ==
    IF v < LED_LOW_MAX /\ v > LED_LOW_MIN THEN LED_STATE_LOW
    ELSE IF v >= LED_HIGH_MIN /\ v <= LED_HIGH_MAX THEN LED_STATE_HIGH
    ELSE LED_STATE_MIDDLE

RECURSIVE SeqSum(_, _)
SeqSum(q, n) == IF n = 0 THEN 0 ELSE q[n] + SeqSum(q, n - 1)

\* lines 451-461: the moving average over the buffer, evaluated after the
\* new sample was stored and the index advanced.
AdcRingAverage(buf, idx, full) ==
    LET samples_count == IF full # 0 THEN VBAT_FILTER_SIZE ELSE idx + 1
    IN  ToUint16(SeqSum(buf, samples_count) \div samples_count)

\* lines 428-486: five conversions averaged, the 8-slot buffer, the step limit.
AdcVBatFilter(A, vs) ==
    LET vbat_current == ToUint16(SeqSum(vs, VBAT_SAMPLES) \div VBAT_SAMPLES)
        buf == [A.VBat_Buffer EXCEPT ![A.VBat_Buffer_Index + 1] = vbat_current]
        idx == (A.VBat_Buffer_Index + 1) % VBAT_FILTER_SIZE
        full == IF A.VBat_Buffer_Full = 0 /\ idx = 0 THEN 1 ELSE A.VBat_Buffer_Full
        filtered_value == AdcRingAverage(buf, idx, full)
        diff == ToInt16(filtered_value - A.VBat_Filtered)
        filt == IF A.VBat_Filtered = 0 THEN filtered_value
                ELSE IF Abs(diff) > VBAT_STEP_THRESHOLD
                THEN ToUint16(A.VBat_Filtered + CDiv(diff, 4))
                ELSE filtered_value
    IN  [A EXCEPT !.VBat_Buffer = buf,
                  !.VBat_Buffer_Index = idx,
                  !.VBat_Buffer_Full = full,
                  !.VBat_Filtered = filt,
                  !.VBat_ADC_Value = filt]

\* Seeded fault: a change during a running window does not restart it.
AdcDetectChangeNoRestart(loc, l1, l2, now) ==
    IF l1 # loc.prev_LED1_State \/ l2 # loc.prev_LED2_State
    THEN [loc EXCEPT !.state_timer = IF loc.state_timer = 0 THEN now
                                     ELSE loc.state_timer,
                     !.prev_LED1_State = l1,
                     !.prev_LED2_State = l2]
    ELSE loc

\* lines 496-502: a change of either LED state restarts the settling timer.
AdcDetectChange(loc, l1, l2, now) ==
    IF l1 # loc.prev_LED1_State \/ l2 # loc.prev_LED2_State
    THEN [loc EXCEPT !.state_timer = now,
                     !.prev_LED1_State = l1,
                     !.prev_LED2_State = l2]
    ELSE loc

\* Seeded fault: full duty only when both channels read HIGH.
TargetDutyBothHigh(l1, l2) ==
    IF \/ (l1 = LED_STATE_LOW /\ l2 = LED_STATE_LOW)
       \/ (l1 = LED_STATE_HIGH /\ l2 = LED_STATE_HIGH)
    THEN DUTY_100
    ELSE IF \/ (l1 = LED_STATE_LOW /\ l2 = LED_STATE_MIDDLE)
            \/ (l2 = LED_STATE_LOW /\ l1 = LED_STATE_MIDDLE)
    THEN DUTY_50
    ELSE DUTY_0

\* lines 507-521: the duty for a pair of LED states.
TargetDuty(l1, l2) ==
    IF \/ (l1 = LED_STATE_LOW /\ l2 = LED_STATE_LOW)
       \/ (l1 = LED_STATE_HIGH \/ l2 = LED_STATE_HIGH)
    THEN DUTY_100
    ELSE IF \/ (l1 = LED_STATE_LOW /\ l2 = LED_STATE_MIDDLE)
            \/ (l2 = LED_STATE_LOW /\ l1 = LED_STATE_MIDDLE)
    THEN DUTY_50
    ELSE DUTY_0

\* lines 504-528: after 100 ms without a change the duty is committed.
\* Returns [A, loc, settled].
AdcCommitDuty(A, loc, now) ==
    IF loc.state_timer # 0 /\ (now - loc.state_timer) >= PWM_SETTLE_MS
    THEN LET td == TargetDuty(A.LED1_State, A.LED2_State)
             loc1 == [loc EXCEPT !.target_duty = td]
         IN  IF A.Current_PWM_Duty # td
             THEN [A |-> [A EXCEPT !.Current_PWM_Duty = td],
                   loc |-> [loc1 EXCEPT !.state_timer = 0], settled |-> TRUE]
             ELSE [A |-> A, loc |-> loc1, settled |-> TRUE]
    ELSE [A |-> A, loc |-> loc, settled |-> FALSE]

\* The compare write without the run-flag test.
AdcCompareValueUngated(A, is_Start_Timer) ==
    A.Current_PWM_Duty

\* lines 530-537: the value written to the compare register.
AdcCompareValue(A, is_Start_Timer) ==
    IF is_Start_Timer THEN A.Current_PWM_Duty ELSE DUTY_0

\* One pass: led1, led2 are the two load-detection conversions, vs the five
\* battery conversions.  adc_tick is lastWakeTime; the tick count is read
\* after the five 2 ms sampling delays.
StartAdcTask(led1, led2, vs) ==
    /\ adc_tick < MaxAdcIter * ADC_PERIOD_MS
    /\ LET now == adc_tick + VBAT_SAMPLES * 2
           A1 == AdcVBatFilter([Adc_State EXCEPT !.LED1_ADC_Value = led1,
                                                 !.LED2_ADC_Value = led2], vs)
           A2 == [A1 EXCEPT !.LED1_State = LedClassify(led1),
                            !.LED2_State = LedClassify(led2)]
           loc1 == AdcDetectChange(adc, A2.LED1_State, A2.LED2_State, now)
           r == AdcCommitDuty(A2, loc1, now)
           ibs == IF Button_State.is_Start_Timer THEN 1 ELSE 0
       IN  /\ Adc_State' = r.A
           /\ adc' = [r.loc EXCEPT !.last_button_state = ibs]
           /\ pwm_compare' = AdcCompareValue(r.A, Button_State.is_Start_Timer)
           /\ stable_since' =
                  IF A2.LED1_State # Adc_State.LED1_State
                     \/ A2.LED2_State # Adc_State.LED2_State
                  THEN now ELSE stable_since
           /\ last_op' = IF r.settled THEN "adc_settled" ELSE "adc"
    /\ adc_tick' = adc_tick + ADC_PERIOD_MS
    /\ UNCHANGED timerVars
    /\ UNCHANGED batVars
    /\ UNCHANGED auxVars
    /\ UNCHANGED call

\* Conversions of the two load-detection channels, one value per band.
LedSamples == {1800, 2400, 3000}
\* Battery conversions of one pass while the load-detection side is studied.
VBatNominal == <<3000, 3000, 3000, 3000, 3000>>

AdcPass == \E led1 \in LedSamples, led2 \in LedSamples :
               StartAdcTask(led1, led2, VBatNominal)

\* Section 4.2 of the specification: the battery estimator signals the
\* actuator controller to suppress (or to resume) the PWM output.  The
\* repository declares the flag (main.h Adc_t.Cut_Off_PWM) and has no writer.
BatterySignalCutoff(b) ==
    /\ Adc_State' = [Adc_State EXCEPT !.Cut_Off_PWM = b]
    /\ last_op' = "cutoff_signal"
    /\ UNCHANGED <<adc, adc_tick, pwm_compare, stable_since>>
    /\ UNCHANGED timerVars
    /\ UNCHANGED batVars
    /\ UNCHANGED auxVars
    /\ UNCHANGED call

BatterySignal == \E b \in BOOLEAN : BatterySignalCutoff(b)

(***************************************************************************)
(* battery_monitor.c                                                       *)
(***************************************************************************)
\* lines 19-25
battery_lookup_table ==
    << <<2741, 0>>, <<2750, 1>>, <<2780, 5>>, <<2820, 10>>, <<2860, 15>>,
       <<2900, 20>>, <<2940, 25>>, <<2980, 30>>, <<3020, 35>>, <<3060, 40>>,
       <<3100, 45>>, <<3140, 50>>, <<3180, 55>>, <<3220, 60>>, <<3260, 65>>,
       <<3300, 70>>, <<3340, 75>>, <<3380, 80>>, <<3420, 85>>, <<3460, 90>>,
       <<3500, 95>>, <<3540, 98>>, <<3580, 99>>, <<3640, 100>>, <<3730, 100>> >>

BATTERY_LOOKUP_TABLE_SIZE == Len(battery_lookup_table)

\* An interpolation that truncates instead of rounding.
Battery_Calculate_PercentageTrunc(adc_value) ==
    IF adc_value >= battery_lookup_table[BATTERY_LOOKUP_TABLE_SIZE][1]
    THEN PERCENT_FULL
    ELSE IF adc_value <= battery_lookup_table[1][1] THEN 0
    ELSE LET i == CHOOSE k \in 2..BATTERY_LOOKUP_TABLE_SIZE :
                      /\ adc_value <= battery_lookup_table[k][1]
                      /\ \A j \in 2..(k - 1) : adc_value > battery_lookup_table[j][1]
             adc_low == battery_lookup_table[i - 1][1]
             adc_high == battery_lookup_table[i][1]
             percent_low == battery_lookup_table[i - 1][2]
             percent_high == battery_lookup_table[i][2]
             den == adc_high - adc_low
             num == 100 * percent_low * den
                    + 100 * (adc_value - adc_low) * (percent_high - percent_low)
         IN  num \div den

\* lines 187-216, in hundredths of a percent: roundf(interpolated * 100).
Battery_Calculate_Percentage(adc_value) ==
    IF adc_value >= battery_lookup_table[BATTERY_LOOKUP_TABLE_SIZE][1]
    THEN PERCENT_FULL
    ELSE IF adc_value <= battery_lookup_table[1][1] THEN 0
    ELSE LET i == CHOOSE k \in 2..BATTERY_LOOKUP_TABLE_SIZE :
                      /\ adc_value <= battery_lookup_table[k][1]
                      /\ \A j \in 2..(k - 1) : adc_value > battery_lookup_table[j][1]
             adc_low == battery_lookup_table[i - 1][1]
             adc_high == battery_lookup_table[i][1]
             percent_low == battery_lookup_table[i - 1][2]
             percent_high == battery_lookup_table[i][2]
             den == adc_high - adc_low
             num == 100 * percent_low * den
                    + 100 * (adc_value - adc_low) * (percent_high - percent_low)
         IN  (2 * num + den) \div (2 * den)

\* (uint16_t)(90 * (1 - expf(-3 * t / 5000))) for t = 0, 100, ..., 4900 ms.
RecoveryDrop ==
    <<0, 5, 10, 14, 19, 23, 27, 30, 34, 37, 40, 43, 46, 48, 51, 53, 55, 57, 59,
      61, 62, 64, 65, 67, 68, 69, 71, 72, 73, 74, 75, 75, 76, 77, 78, 78, 79,
      80, 80, 81, 81, 82, 82, 83, 83, 83, 84, 84, 84, 85>>

\* lines 218-241; time_since_load_change is a multiple of BatPeriodMs.
Battery_Apply_Load_Compensation(raw_adc, is_under_load, time_since_load_change) ==
    IF ~is_under_load
    THEN IF time_since_load_change < BATTERY_RECOVERY_TIME_MS
         THEN ToUint16(raw_adc
                       - RecoveryDrop[(time_since_load_change \div BatPeriodMs) + 1])
         ELSE ToUint16(raw_adc - BATTERY_LOAD_VOLTAGE_DROP_ADC)
    ELSE raw_adc

\* lines 304-317
Battery_Filter_ADC_Samples(m) ==
    LET count == IF m.sample_buffer_full THEN BATTERY_SAMPLE_BUFFER_SIZE
                 ELSE m.sample_index
    IN  IF count = 0 THEN 0
        ELSE ToUint16(SeqSum(m.raw_adc_samples, count) \div count)

\* lines 319-328
Battery_Update_Ten_Second_Average(m, voltage) ==
    LET idx == (m.ten_second_index + 1) % TEN_SECOND_BUFFER_SIZE
    IN  [m EXCEPT !.ten_second_samples[m.ten_second_index + 1] = voltage,
                  !.ten_second_index = idx,
                  !.ten_second_buffer_full =
                      IF ~m.ten_second_buffer_full /\ idx = 0 THEN TRUE
                      ELSE m.ten_second_buffer_full]

\* lines 330-344: returns [m, avg]; the average is also stored.
Battery_Get_Ten_Second_Average(m) ==
    LET count == IF m.ten_second_buffer_full THEN TEN_SECOND_BUFFER_SIZE
                 ELSE m.ten_second_index
    IN  IF count = 0 THEN [m |-> m, avg |-> 0]
        ELSE LET a == ToUint16(SeqSum(m.ten_second_samples, count) \div count)
             IN  [m |-> [m EXCEPT !.ten_second_average = a], avg |-> a]

\* lines 346-381: returns [m, ok].
Battery_Should_Update_Percentage(m, is_load_active, current_time) ==
    IF (current_time - m.ten_second_start_time) < TEN_SECOND_MS
    THEN [m |-> m, ok |-> FALSE]
    ELSE IF ~m.ten_second_buffer_full THEN [m |-> m, ok |-> FALSE]
    ELSE IF is_load_active THEN [m |-> m, ok |-> TRUE]
    ELSE LET r == Battery_Get_Ten_Second_Average(m)
         IN  IF r.avg > 0 /\ Abs(r.avg - r.m.filtered_voltage)
                                >= VOLTAGE_CHANGE_THRESHOLD_ADC
             THEN [m |-> r.m, ok |-> TRUE]
             ELSE [m |-> r.m,
                   ok |-> (current_time - r.m.last_flash_save_time)
                              >= BATTERY_FLASH_SAVE_INTERVAL_MS]

\* (uint8_t)roundf(percentage)
PercentInteger(p) == ToUint8((p + 50) \div 100)

\* lines 243-258: returns [m, page].
Battery_Save_To_Flash(m, page, current_time, fo) ==
    LET w == Flash_WriteBatteryData(page, PercentInteger(m.battery_percentage),
                                    m.status, m.compensated_voltage, fo)
    IN  IF w.ok
        THEN [m |-> [m EXCEPT !.last_saved_percentage = m.battery_percentage,
                              !.last_flash_save_time = current_time],
              page |-> w.page]
        ELSE [m |-> m, page |-> w.page]

\* lines 260-301
Battery_Load_From_Flash(m, page) ==
    LET r == Flash_ReadBatteryData(page)
        dflt == [m EXCEPT !.battery_percentage = PERCENT_DEFAULT,
                          !.last_saved_percentage = PERCENT_DEFAULT,
                          !.status = BATTERY_STATUS_NORMAL]
    IN  IF r.ok
        THEN IF /\ r.percentage <= 100
                /\ r.status <= BATTERY_STATUS_CRITICAL
                /\ r.adc_value >= BATTERY_MIN
                /\ r.adc_value <= BATTERY_MAX
             THEN IF r.percentage >= 5 /\ r.percentage <= 95
                  THEN [m EXCEPT !.battery_percentage = r.percentage * 100,
                                 !.status = r.status,
                                 !.last_saved_percentage = r.percentage * 100,
                                 !.compensated_voltage = r.adc_value]
                  ELSE [dflt EXCEPT !.compensated_voltage = r.adc_value]
             ELSE dflt
        ELSE dflt

\* lines 60-76
Battery_Monitor_Init(page, current_time) ==
    Battery_Load_From_Flash(
        [raw_adc_samples |-> [i \in 1..BATTERY_SAMPLE_BUFFER_SIZE |-> 0],
         sample_index |-> 0,
         sample_buffer_full |-> FALSE,
         ten_second_samples |-> [i \in 1..TEN_SECOND_BUFFER_SIZE |-> 0],
         ten_second_index |-> 0,
         ten_second_buffer_full |-> FALSE,
         ten_second_start_time |-> current_time,
         filtered_voltage |-> 0,
         compensated_voltage |-> 0,
         ten_second_average |-> 0,
         battery_percentage |-> PERCENT_DEFAULT,
         last_saved_percentage |-> PERCENT_DEFAULT,
         status |-> BATTERY_STATUS_NORMAL,
         last_load_state_change_time |-> 0,
         is_under_load |-> FALSE,
         voltage_recovery_in_progress |-> FALSE,
         last_update_time |-> current_time,
         last_flash_save_time |-> current_time], page)

\* lines 158-169: the status of a percentage.
BatteryClassify(p) ==
    IF p <= PERCENT_CRITICAL THEN BATTERY_STATUS_CRITICAL
    ELSE IF p <= PERCENT_LOW THEN BATTERY_STATUS_LOW
    ELSE BATTERY_STATUS_NORMAL

\* A step that always moves two points, without comparing the distance left.
BatteryStepPercentageBlind(m) ==
    LET r == Battery_Get_Ten_Second_Average(m)
    IN  IF r.avg > 0
        THEN LET new_percentage == Battery_Calculate_Percentage(r.avg)
                 percentage_diff == new_percentage - r.m.battery_percentage
                 p1 == IF percentage_diff > 0
                       THEN r.m.battery_percentage + PERCENT_STEP
                       ELSE r.m.battery_percentage - PERCENT_STEP
                 p2 == IF p1 > PERCENT_FULL THEN PERCENT_FULL ELSE p1
                 p3 == IF p2 > 15000 /\ p2 < 25500 THEN 0 ELSE p2
             IN  [r.m EXCEPT !.battery_percentage = p3]
        ELSE r.m

\* lines 129-151: the percentage moves toward the ten-second average by at
\* most two points.
BatteryStepPercentage(m) ==
    LET r == Battery_Get_Ten_Second_Average(m)
    IN  IF r.avg > 0
        THEN LET new_percentage == Battery_Calculate_Percentage(r.avg)
                 percentage_diff == new_percentage - r.m.battery_percentage
                 p1 == IF Abs(percentage_diff) <= PERCENT_STEP THEN new_percentage
                       ELSE IF percentage_diff > PERCENT_STEP
                       THEN r.m.battery_percentage + PERCENT_STEP
                       ELSE r.m.battery_percentage - PERCENT_STEP
                 p2 == IF p1 > PERCENT_FULL THEN PERCENT_FULL ELSE p1
                 p3 == IF p2 > 15000 /\ p2 < 25500 THEN 0 ELSE p2
             IN  [r.m EXCEPT !.battery_percentage = p3]
        ELSE r.m

\* lines 82-94: a change of the load flag restarts the ten-second window.
BatteryLoadChange(m, is_load_active, current_time) ==
    IF m.is_under_load # is_load_active
    THEN [m EXCEPT !.is_under_load = is_load_active,
                   !.last_load_state_change_time = current_time,
                   !.ten_second_start_time = current_time,
                   !.ten_second_index = 0,
                   !.ten_second_buffer_full = FALSE,
                   !.voltage_recovery_in_progress =
                       IF ~is_load_active THEN TRUE
                       ELSE m.voltage_recovery_in_progress]
    ELSE m

\* lines 96-102: the ring of raw conversions.
BatteryStoreSample(m, raw_adc_value) ==
    LET idx == (m.sample_index + 1) % BATTERY_SAMPLE_BUFFER_SIZE
    IN  [m EXCEPT !.raw_adc_samples[m.sample_index + 1] = raw_adc_value,
                  !.sample_index = idx,
                  !.sample_buffer_full =
                      IF ~m.sample_buffer_full /\ idx = 0 THEN TRUE
                      ELSE m.sample_buffer_full]

\* line 104
BatteryFilter(m) ==
    [m EXCEPT !.filtered_voltage = Battery_Filter_ADC_Samples(m)]

\* lines 106-119
BatteryCompensate(m, is_load_active, current_time) ==
    [m EXCEPT !.compensated_voltage =
        IF is_load_active THEN m.filtered_voltage
        ELSE Battery_Apply_Load_Compensation(
                 m.filtered_voltage, FALSE,
                 current_time - m.last_load_state_change_time)]

\* lines 121-125
BatterySampleTenSecond(m, current_time) ==
    IF (current_time - m.last_update_time) >= TEN_SECOND_SAMPLE_PERIOD_MS
    THEN [Battery_Update_Ten_Second_Average(m, m.compensated_voltage)
              EXCEPT !.last_update_time = current_time]
    ELSE m

\* lines 127-151
BatteryUpdatePercentage(su) ==
    IF su.ok THEN BatteryStepPercentage(su.m) ELSE su.m

\* lines 153-156
BatteryFullCheck(m) ==
    IF m.compensated_voltage >= BATTERY_FULL
    THEN [m EXCEPT !.battery_percentage = PERCENT_FULL]
    ELSE m

\* lines 158-169
BatterySetStatus(m) ==
    [m EXCEPT !.status = BatteryClassify(m.battery_percentage)]

\* lines 171-178: returns [m, page].
BatterySaveIfDue(m, page, current_time, fo) ==
    IF \/ Abs(m.battery_percentage - m.last_saved_percentage)
              >= BATTERY_PERCENTAGE_SAVE_THRESHOLD * 100
       \/ (current_time - m.last_flash_save_time)
              >= BATTERY_FLASH_SAVE_INTERVAL_MS
    THEN Battery_Save_To_Flash(m, page, current_time, fo)
    ELSE [m |-> m, page |-> page]

\* lines 180-184
BatteryRecoveryDone(sv, current_time) ==
    IF /\ sv.m.voltage_recovery_in_progress
       /\ (current_time - sv.m.last_load_state_change_time)
              >= BATTERY_RECOVERY_TIME_MS
    THEN [sv EXCEPT !.m.voltage_recovery_in_progress = FALSE]
    ELSE sv

\* lines 78-185: returns [m, page].
Battery_Monitor_UpdateBody(m, page, raw_adc_value, is_load_active, current_time, fo) ==
    BatteryRecoveryDone(
      BatterySaveIfDue(
        BatterySetStatus(
          BatteryFullCheck(
            BatteryUpdatePercentage(
              Battery_Should_Update_Percentage(
                BatterySampleTenSecond(
                  BatteryCompensate(
                    BatteryFilter(
                      BatteryStoreSample(
                        BatteryLoadChange(m, is_load_active, current_time),
                        raw_adc_value)),
                    is_load_active, current_time),
                  current_time),
                is_load_active, current_time)))),
        page, current_time, fo),
      current_time)

\* One call of Battery_Monitor_Update, BatPeriodMs after the previous one.
Battery_Monitor_Update(raw_adc_value, is_load_active, fo) ==
    /\ bat_tick < MaxBatWindows * BatWindowMs
    /\ LET current_time == bat_tick + BatPeriodMs
           r == Battery_Monitor_UpdateBody(monitor, flash, raw_adc_value,
                                           is_load_active, current_time, fo)
       IN  /\ monitor' = r.m
           /\ flash' = r.page
           /\ bat_tick' = current_time
           /\ bat_input' = [raw |-> raw_adc_value, load |-> is_load_active]
           /\ last_op' = IF r.m.battery_percentage # monitor.battery_percentage
                         THEN "battery_step" ELSE "battery"
    /\ UNCHANGED call
    /\ UNCHANGED auxVars
    /\ UNCHANGED <<Button_State, btn, tick, raw_level, MainTimerActive, FAN_ONOFF,
                   UART_State, run_ticks>>
    /\ UNCHANGED adcVars

BatteryInputs ==
    IF bat_tick % BatWindowMs = 0
    THEN [raw : BatLevels, load : BOOLEAN]
    ELSE {bat_input}

BatteryCall == \E i \in BatteryInputs : Battery_Monitor_Update(i.raw, i.load, "ok")

\* The same calls with conversions at the ends of the range: 0, a level below
\* the table, a level above BATTERY_FULL.
BatRangeLevels == {0, BATTERY_MIN - 40, BATTERY_FULL + 60}

BatteryRangeCall ==
    \E i \in (IF bat_tick % BatWindowMs = 0
               THEN [raw : BatRangeLevels, load : BOOLEAN]
               ELSE {bat_input}) :
        Battery_Monitor_Update(i.raw, i.load, "ok")

(***************************************************************************)
(* Initial state: the initialisers of freertos.c, then RTOS_Start          *)
(***************************************************************************)
InitButtonState(page) ==
    [Timer_Value |-> Timer_LoadFromFlash(page),
     Timer_Set_Start_Time |-> 0,
     second_count |-> 0,
     minute_count |-> 0,
     Current_Button_State |-> BUTTON_STATE_STANDBY,
     is_Start_Timer |-> FALSE,
     Button_Press_Start_Time |-> 0,
     Button_Press_Duration |-> 0,
     Button_Current_Time |-> 0,
     Button_Current_State |-> GPIO_PIN_SET,
     Button_Prev_State |-> GPIO_PIN_SET,
     is_pushed_changed |-> FALSE,
     is_start_to_cooling |-> FALSE,
     cooling_second |-> 0]

InitAdcState ==
    [LED1_ADC_Value |-> 0, LED2_ADC_Value |-> 0, VBat_ADC_Value |-> 0,
     LED1_State |-> LED_STATE_MIDDLE, LED2_State |-> LED_STATE_MIDDLE,
     State_Start_Time |-> 0, Current_PWM_Duty |-> 0, Cut_Off_PWM |-> FALSE,
     VBat_Filtered |-> 0, VBat_Buffer |-> [i \in 1..VBAT_FILTER_SIZE |-> 0],
     VBat_Buffer_Index |-> 0, VBat_Buffer_Full |-> 0]

(***************************************************************************)
(* Battery_Calculate_Percentage called directly over the 12-bit ADC range  *)
(***************************************************************************)
\* Steps by which successive arguments grow.
PercentStrides == {1, 64}

\* The first call converts 0; each later call a larger conversion result.
PercentCall(a) ==
    /\ a \in 0..ADC_RESOLUTION
    /\ call.fn # "Battery_Calculate_Percentage" => a = 0
    /\ call.fn = "Battery_Calculate_Percentage"
           => a - call.arg[1] \in PercentStrides
    /\ call' = [fn |-> "Battery_Calculate_Percentage", arg |-> <<a>>,
                ok |-> TRUE, res |-> <<Battery_Calculate_Percentage(a)>>,
                fresh |-> FALSE]
    /\ last_op' = "percent"
    /\ UNCHANGED timerVars
    /\ UNCHANGED adcVars
    /\ UNCHANGED batVars
    /\ UNCHANGED auxVars

(***************************************************************************)
(* flash_storage.c called directly, and the stored bytes disturbed          *)
(***************************************************************************)
NoCall == [fn |-> "none", arg |-> <<>>, ok |-> TRUE, res |-> <<>>, fresh |-> FALSE]

\* Values a caller passes: <<percentage, status, adc_value>> and timer values.
FlashBatteryArgs == {<<77, BATTERY_STATUS_CRITICAL, 3000>>,
                     <<100, BATTERY_STATUS_NORMAL, 4095>>,
                     <<0, BATTERY_STATUS_LOW, 0>>}
FlashTimerArgs == {10, 254, 70000}

FlashWriteBattery(a, fo) ==
    LET w == Flash_WriteBatteryData(flash, a[1], a[2], a[3], fo)
    IN  /\ flash' = w.page
        /\ call' = [fn |-> "Flash_WriteBatteryData", arg |-> a, ok |-> w.ok,
                    res |-> <<fo>>, fresh |-> FALSE]
        /\ last_op' = "flash"
        /\ UNCHANGED <<Button_State, btn, tick, raw_level, MainTimerActive,
                       FAN_ONOFF, UART_State, run_ticks>>
        /\ UNCHANGED adcVars
        /\ UNCHANGED batVars
        /\ UNCHANGED auxVars

FlashWriteTimer(t, fo) ==
    LET w == Flash_WriteTimerValue(flash, t, fo)
    IN  /\ flash' = w.page
        /\ call' = [fn |-> "Flash_WriteTimerValue", arg |-> <<t>>, ok |-> w.ok,
                    res |-> <<fo>>, fresh |-> FALSE]
        /\ last_op' = "flash"
        /\ UNCHANGED <<Button_State, btn, tick, raw_level, MainTimerActive,
                       FAN_ONOFF, UART_State, run_ticks>>
        /\ UNCHANGED adcVars
        /\ UNCHANGED batVars
        /\ UNCHANGED auxVars

\* A read; `fresh` tells that the call before it was a successful write of the
\* same kind, whose arguments are kept in `arg`.
FlashReadBattery ==
    LET r == Flash_ReadBatteryData(flash)
        fresh == call.fn = "Flash_WriteBatteryData" /\ call.ok
    IN  /\ call' = [fn |-> "Flash_ReadBatteryData",
                    arg |-> IF fresh THEN call.arg ELSE <<>>,
                    ok |-> r.ok, res |-> <<r.percentage, r.status, r.adc_value>>,
                    fresh |-> fresh]
        /\ last_op' = "flash"
        /\ UNCHANGED timerVars
        /\ UNCHANGED adcVars
        /\ UNCHANGED batVars
        /\ UNCHANGED auxVars

FlashReadTimer ==
    LET r == Flash_ReadTimerValue(flash)
        fresh == call.fn = "Flash_WriteTimerValue" /\ call.ok
    IN  /\ call' = [fn |-> "Flash_ReadTimerValue",
                    arg |-> IF fresh THEN call.arg ELSE <<>>,
                    ok |-> r.ok, res |-> <<r.timer_value>>,
                    fresh |-> fresh]
        /\ last_op' = "flash"
        /\ UNCHANGED timerVars
        /\ UNCHANGED adcVars
        /\ UNCHANGED batVars
        /\ UNCHANGED auxVars

\* x with its byte i (0 = least significant) increased by delta modulo 256.
BumpByte(x, i, delta) ==
    LET w == IF i = 0 THEN 1 ELSE 256
        old == (x \div w) % 256
    IN  x - old * w + ((old + delta) % 256) * w

\* The page with byte k of the FlashData_t layout (flash_storage.h 23-32,
\* little-endian) disturbed.
CorruptPageByte(page, k, delta) ==
    CASE k \in 0..1 -> [page EXCEPT !.magic[2] = BumpByte(@, k, delta)]
      [] k \in 2..3 -> [page EXCEPT !.magic[1] = BumpByte(@, k - 2, delta)]
      [] k \in 4..5 -> [page EXCEPT !.version = BumpByte(@, k - 4, delta)]
      [] k \in 6..7 -> [page EXCEPT !.reserved = BumpByte(@, k - 6, delta)]
      [] k \in 8..9 -> [page EXCEPT !.timer_value[2] = BumpByte(@, k - 8, delta)]
      [] k \in 10..11 -> [page EXCEPT !.timer_value[1] = BumpByte(@, k - 10, delta)]
      [] k = 12 -> [page EXCEPT !.battery_percentage = BumpByte(@, 0, delta)]
      [] k = 13 -> [page EXCEPT !.battery_status = BumpByte(@, 0, delta)]
      [] k \in 14..15 -> [page EXCEPT !.last_battery_adc = BumpByte(@, k - 14, delta)]
      [] k \in 16..17 -> [page EXCEPT !.checksum[2] = BumpByte(@, k - 16, delta)]
      [] k \in 18..19 -> [page EXCEPT !.checksum[1] = BumpByte(@, k - 18, delta)]

FlashRecordBytes == 0..19
CorruptDeltas == {1, 255}

\* One byte of a valid stored record changes (wear, interrupted power).
FlashCorrupt(k, delta) ==
    /\ Flash_IsDataValid(flash)
    /\ flash' = CorruptPageByte(flash, k, delta)
    /\ call' = [fn |-> "corrupt", arg |-> <<k, delta>>, ok |-> TRUE,
                res |-> <<>>, fresh |-> FALSE]
    /\ last_op' = "flash"
    /\ UNCHANGED <<Button_State, btn, tick, raw_level, MainTimerActive,
                   FAN_ONOFF, UART_State, run_ticks>>
    /\ UNCHANGED adcVars
    /\ UNCHANGED batVars
    /\ UNCHANGED auxVars

(***************************************************************************)
(* flash_storage.c: the two writers step by step.  Each reads the existing *)
(* record and builds the new one, erases the page, then programs the three *)
(* doublewords; nothing serialises one writer against the other.           *)
(***************************************************************************)
FlashWriters == {"timer", "battery"}

NoFlashWriters ==
    [p \in FlashWriters |-> [pc |-> "idle", k |-> 0, buf |-> ErasedPage, arg |-> <<>>]]

\* Doubleword k of the page is in the erased state.
DoublewordErased(page, k) ==
    CASE k = 0 -> /\ page.magic = ErasedPage.magic
                  /\ page.version = ErasedPage.version
                  /\ page.reserved = ErasedPage.reserved
      [] k = 1 -> /\ page.timer_value = ErasedPage.timer_value
                  /\ page.battery_percentage = ErasedPage.battery_percentage
                  /\ page.battery_status = ErasedPage.battery_status
                  /\ page.last_battery_adc = ErasedPage.last_battery_adc
      [] OTHER -> page.checksum = ErasedPage.checksum

\* lines 140-162: HAL_FLASH_Program of doubleword k of record d; a doubleword
\* that is not erased is left as it is and the call fails.  Returns [page, ok].
ProgramDoubleword(page, d, k) ==
    IF ~DoublewordErased(page, k) THEN [page |-> page, ok |-> FALSE]
    ELSE [page |-> CASE k = 0 -> [page EXCEPT !.magic = d.magic,
                                              !.version = d.version,
                                              !.reserved = d.reserved]
                     [] k = 1 -> [page EXCEPT
                                      !.timer_value = d.timer_value,
                                      !.battery_percentage = d.battery_percentage,
                                      !.battery_status = d.battery_status,
                                      !.last_battery_adc = d.last_battery_adc]
                     [] OTHER -> [page EXCEPT !.checksum = d.checksum],
          ok |-> TRUE]

FlashStepFrame ==
    /\ last_op' = "flash_step"
    /\ UNCHANGED <<Button_State, btn, tick, raw_level, MainTimerActive,
                   FAN_ONOFF, UART_State, run_ticks>>
    /\ UNCHANGED adcVars
    /\ UNCHANGED batVars
    /\ UNCHANGED <<call, rx, click, writers>>

\* lines 100-120 and 184-204: the writer reads the page and builds its record.
FlashWriteRead(p, a) ==
    /\ fw[p].pc = "idle"
    /\ fw' = [fw EXCEPT ![p] =
                 [pc |-> "read", k |-> 0, arg |-> a,
                  buf |-> IF p = "timer"
                          THEN Flash_WriteTimerValue(flash, a[1], "ok").page
                          ELSE Flash_WriteBatteryData(flash, a[1], a[2], a[3],
                                                      "ok").page]]
    /\ UNCHANGED flash
    /\ FlashStepFrame

\* lines 122-127 and 206-211: Flash_EraseStoragePage.
FlashWriteErase(p) ==
    /\ fw[p].pc = "read"
    /\ flash' = ErasedPage
    /\ fw' = [fw EXCEPT ![p].pc = "program"]
    /\ FlashStepFrame

\* lines 140-167: one pass of the program loop; the function returns after
\* the third doubleword or at the first failure.
FlashWriteProgram(p) ==
    /\ fw[p].pc = "program"
    /\ LET r == ProgramDoubleword(flash, fw[p].buf, fw[p].k)
       IN  /\ flash' = r.page
           /\ fw' = [fw EXCEPT ![p].pc = IF ~r.ok THEN "error"
                                         ELSE IF fw[p].k = 2 THEN "ok"
                                         ELSE "program",
                                ![p].k = IF r.ok /\ fw[p].k < 2
                                         THEN fw[p].k + 1 ELSE fw[p].k]
    /\ FlashStepFrame

\* The host has sent nothing; no click handler is under way.
NoWriters == [f \in SharedFields |-> {}]

\* The state after construction, given the flash page found at power-on;
\* record tells whether the writers of Button_State are recorded.
InitState(pages, record) ==
    /\ flash \in pages
    /\ Button_State = InitButtonState(flash)
    /\ btn = [is_Button_Pressed |-> FALSE, is_Button_Released |-> FALSE,
              button_stable_state |-> GPIO_PIN_SET, button_stable_count |-> 0]
    /\ tick = 0
    /\ raw_level = GPIO_PIN_SET
    /\ MainTimerActive = FALSE
    /\ FAN_ONOFF = GPIO_PIN_RESET
    /\ UART_State = [cmd_buffer |-> EmptyCmdBuffer, cmd_index |-> 0,
                     command_ready |-> 0,
                     monitoring_enabled |-> 0, auto_screen_update |-> 0]
    /\ Adc_State = InitAdcState
    /\ adc = [prev_LED1_State |-> LED_STATE_MIDDLE, prev_LED2_State |-> LED_STATE_MIDDLE,
              state_timer |-> 0, target_duty |-> 0, last_button_state |-> 0]
    /\ adc_tick = 0
    /\ pwm_compare = 0
    /\ last_op = "init"
    /\ run_ticks = -1
    /\ stable_since = 0
    /\ monitor = Battery_Monitor_Init(flash, 0)
    /\ bat_tick = 0
    /\ bat_input = [raw |-> 2880, load |-> FALSE]
    /\ call = NoCall
    /\ rx = [line |-> <<>>, sent |-> 0, only_long |-> TRUE, cur |-> <<>>,
             last |-> <<>>]
    /\ click = "idle"
    /\ writers = [on |-> record, by |-> NoWriters]
    /\ fw = NoFlashWriters

InitFrom(pages) == InitState(pages, FALSE)

Init == InitFrom(InitFlashPages)

(***************************************************************************)
(* Specifications                                                          *)
(***************************************************************************)
\* Button task, MainTimer callback and the serial timer commands.
UartTimerSet == \E a \in SetTimerArgs : UART_ProcessTimerSet(a[1], a[2])

\* The environment acts when the timer is idle or at one of its instants.
InputInstant ==
    IF Button_State.is_Start_Timer
    THEN Button_State.second_count \in InputSeconds
    ELSE Button_State.is_start_to_cooling
             => Button_State.cooling_second \in InputCoolingSeconds

NextTimer ==
    \/ InputInstant /\ ButtonPeriod
    \/ Callback01
    \/ InputInstant /\ UartTimerSet
    \/ InputInstant /\ UART_ProcessTimerStart
    \/ InputInstant /\ UART_ProcessTimerStop
    \/ InputInstant /\ UART_ProcessReset

Spec == Init /\ [][NextTimer]_vars

\* ADC task with the run flag driven by the serial start/stop commands.
NextAdc ==
    \/ AdcPass
    \/ UART_ProcessTimerStart
    \/ UART_ProcessTimerStop
    \/ BatterySignal

SpecAdc == Init /\ [][NextAdc]_vars

\* The button pressed and kept down past the 1.5 s hold and the 5 s
\* inactivity limit that follows it.
LongHoldPolls ==
    (LONG_PRESS_MS + TIMER_SET_TIMEOUT_MS) \div BUTTON_POLL_MS + 2 * DEBOUNCE_COUNT

ButtonPeriodOrHold ==
    \E n \in (IF raw_level = GPIO_PIN_SET THEN PressRuns \cup {LongHoldPolls}
               ELSE ReleaseRuns) :
        \E fo \in ButtonFlashOutcomes : StartButtonTask(n, fo)

\* The button task and the serial SET_TIMER command, booted from a page that
\* holds a large or an odd duration.
NextTimerSet ==
    \/ ButtonPeriodOrHold
    \/ UartTimerSet

SpecTimerSet == InitFrom(TimerSetFlashPages) /\ [][NextTimerSet]_vars

\* The button task with presses of 30 ms, 1.03 s, 1.53 s, 3.03 s and 6.56 s,
\* and the MainTimer callback.
HoldRuns == {3, 103, 153, 303, LongHoldPolls}

ButtonHoldPeriod ==
    \E n \in (IF raw_level = GPIO_PIN_SET THEN HoldRuns ELSE ReleaseRuns) :
        \E fo \in ButtonFlashOutcomes : StartButtonTask(n, fo)

NextHold ==
    \/ InputInstant /\ ButtonHoldPeriod
    \/ Callback01

SpecHold == Init /\ [][NextHold]_vars

\* The countdown over the durations the firmware accepts: booted from a page
\* holding 2 or 200 minutes, with SET_TIMER 99:00, START_TIMER and STOP_TIMER
\* arriving at the input instants.
DurationFlashPages == {StoredRecord(2, 12, 1, 2840), StoredRecord(200, 12, 1, 2840)}
DurationArgs == {<<99, 0>>}

TimerStartCommand ==
    /\ SerialCommit(UART_ProcessTimerStartBody(SerialBundle("UART_ProcessCommand")),
                    SerialRunTicks(UART_ProcessTimerStartBody(
                                       SerialBundle("UART_ProcessCommand"))))
    /\ UNCHANGED call

TimerSetCommand == \E a \in DurationArgs : UART_ProcessTimerSet(a[1], a[2])

NextDurations ==
    \/ InputInstant /\ TimerStartCommand
    \/ InputInstant /\ UART_ProcessTimerStop
    \/ InputInstant /\ TimerSetCommand
    \/ Callback01

SpecDurations == InitFrom(DurationFlashPages) /\ [][NextDurations]_vars

\* The button task sampling a bouncing contact.
ButtonBounce ==
    \E n \in BounceRuns :
        /\ tick + n * BUTTON_POLL_MS <= BounceHorizon
        /\ StartButtonTask(n, "ok")

NextBounce == ButtonBounce

SpecBounce == Init /\ [][NextBounce]_vars

\* ADC task with a battery input that changes from pass to pass; the five
\* conversions of one pass are equal.
VBatLevels == {0, 3000, 3100}

AdcVBatPass ==
    \E v \in VBatLevels :
        StartAdcTask(LED_LOW_MIN + 300, LED_LOW_MIN + 300, <<v, v, v, v, v>>)

NextVBat == AdcVBatPass

SpecVBat == Init /\ [][NextVBat]_vars

\* ADC task observed in every operating mode: both load-detection channels
\* stay in the LOW band while the button, the serial start command and the
\* one-second timer move the device through its modes.
AdcLowPass == StartAdcTask(LED_LOW_MIN + 300, LED_LOW_MIN + 300, VBatNominal)

NextModes ==
    \/ AdcLowPass
    \/ InputInstant /\ ButtonPeriod
    \/ Callback01
    \/ InputInstant /\ UART_ProcessTimerStart

SpecModes == Init /\ [][NextModes]_vars

\* The flash storage functions called in any order on a page that may be
\* disturbed.
NextFlash ==
    \/ \E a \in FlashBatteryArgs, fo \in FlashOutcomes : FlashWriteBattery(a, fo)
    \/ \E t \in FlashTimerArgs, fo \in FlashOutcomes : FlashWriteTimer(t, fo)
    \/ FlashReadBattery
    \/ FlashReadTimer
    \/ \E k \in FlashRecordBytes, delta \in CorruptDeltas : FlashCorrupt(k, delta)

SpecFlash == Init /\ [][NextFlash]_vars

\* One Flash_WriteTimerValue call and one Flash_WriteBatteryData call, each
\* preemptible between its steps.
RaceTimerArgs == {4, 254}

NextFlashRace ==
    \/ \E t \in RaceTimerArgs : FlashWriteRead("timer", <<t>>)
    \/ \E a \in FlashBatteryArgs : FlashWriteRead("battery", a)
    \/ \E p \in FlashWriters : FlashWriteErase(p)
    \/ \E p \in FlashWriters : FlashWriteProgram(p)

SpecFlashRace == Init /\ [][NextFlashRace]_vars

\* The percentage conversion swept upward over the ADC range.
NextPercent == \E a \in 0..ADC_RESOLUTION : PercentCall(a)

SpecPercent == Init /\ [][NextPercent]_vars

\* The battery monitor driven to the ends of its range, booted from pages
\* holding the smallest and the largest percentage Battery_Load_From_Flash
\* accepts and one it rejects.
BatRangeFlashPages == {StoredRecord(10, 5, BATTERY_STATUS_CRITICAL, 2760),
                       StoredRecord(10, 95, BATTERY_STATUS_NORMAL, 3500),
                       StoredRecord(10, 200, BATTERY_STATUS_NORMAL, 3500)}

NextBatRange == BatteryRangeCall

SpecBatRange == InitFrom(BatRangeFlashPages) /\ [][NextBatRange]_vars

\* A command line that has arrived whole and is dispatched (UartMutex held).
UartCommand(cmd_str) ==
    LET s == UART_Dispatch(SerialBundle("UART_ProcessCommand"), cmd_str,
                           Adc_State, TRUE)
    IN  /\ (~Button_State.is_Start_Timer /\ s.B.is_Start_Timer)
               => Button_State.Timer_Value <= MaxRunMinutes
        /\ SerialCommit(s, SerialRunTicks(s))
        /\ call' = [fn |-> "UART_ProcessCommand", arg |-> <<cmd_str>>,
                    ok |-> TRUE, res |-> s.tx, fresh |-> FALSE]

\* RESET sent in every mode of the device, with monitoring on or off.
NextReset ==
    \/ InputInstant /\ ButtonPeriod
    \/ Callback01
    \/ InputInstant /\ UART_ProcessTimerStart
    \/ InputInstant /\ UartCommand(Str_START_MONITOR)
    \/ InputInstant /\ UART_ProcessReset

SpecReset == Init /\ [][NextReset]_vars

\* The timer commands sent at the wrong moment or with a bad argument, next
\* to well-formed ones.
BadSetTimerLines ==
    {Str_SET_TIMER_prefix \o <<"1", "0", "0", ":", "0", "0">>,
     Str_SET_TIMER_prefix \o <<"0", "5", ":", "6", "0">>,
     Str_SET_TIMER_prefix \o <<"-", "1", ":", "0", "0">>,
     Str_SET_TIMER_prefix \o <<"a", "b", "c">>,
     Str_SET_TIMER_prefix \o <<"5">>,
     Str_SET_TIMER_prefix}

TimerCommandLines ==
    BadSetTimerLines
        \cup {Str_SET_TIMER_prefix \o <<"0", "1", ":", "0", "0">>,
              Str_START_TIMER, Str_STOP_TIMER}

NextErrors ==
    \/ InputInstant /\ \E cmd_str \in TimerCommandLines : UartCommand(cmd_str)
    \/ Callback01

SpecErrors == Init /\ [][NextErrors]_vars

\* Button task, timer callback and serial timer commands with the writers of
\* Button_State recorded.
\* The host uses the serial commands before the user first touches the
\* button.
NextWriters ==
    \/ InputInstant /\ ButtonPeriod
    \/ Callback01
    \/ tick = 0 /\ InputInstant /\ UartTimerSet
    \/ tick = 0 /\ InputInstant /\ UART_ProcessTimerStart
    \/ tick = 0 /\ InputInstant /\ UART_ProcessTimerStop
    \/ tick = 0 /\ InputInstant /\ UART_ProcessReset

SpecWriters == InitState(InitFlashPages, TRUE) /\ [][NextWriters]_vars

\* The short-click handler of StartButtonTask in two steps, so that a task
\* of higher priority (the serial task, osPriorityHigh1 against the button
\* task's osPriorityNormal1) or the timer callback can run between the test
\* of line 790 and the toggle of line 793.  The click is a valid short one
\* of ClickMs; the bookkeeping of the pass around the handler, which does not
\* touch the fields the handlers share, is left out.
ClickMs == DEBOUNCE_COUNT * BUTTON_POLL_MS

ShortClickTest ==
    /\ click = "idle"
    /\ Button_State.Current_Button_State = BUTTON_STATE_STANDBY
    /\ Button_State.Timer_Value <= MaxRunMinutes
    /\ Button_State' = [Button_State EXCEPT !.Button_Press_Duration = ClickMs]
    /\ click' = IF ButtonStandbyClickTest(
                       [Bundle EXCEPT !.B.Button_Press_Duration = ClickMs])
                THEN "toggle" ELSE "idle"
    /\ last_op' = "click_test"
    /\ UNCHANGED <<btn, tick, raw_level, MainTimerActive, FAN_ONOFF, flash,
                   UART_State, run_ticks>>
    /\ UNCHANGED adcVars
    /\ UNCHANGED batVars
    /\ UNCHANGED <<call, rx, writers, fw>>

ShortClickToggle ==
    /\ click = "toggle"
    /\ Button_State' = ButtonStandbyClickBody(Bundle).B
    /\ MainTimerActive' = ButtonStandbyClickBody(Bundle).T
    /\ FAN_ONOFF' = ButtonStandbyClickBody(Bundle).F
    /\ click' = "idle"
    /\ last_op' = Outcome(Button_State, ButtonStandbyClickBody(Bundle).B, "button")
    /\ run_ticks' = -1
    /\ Wrote("button", ButtonStandbyClickBody(Bundle).B)
    /\ UNCHANGED <<btn, tick, raw_level, flash, UART_State>>
    /\ UNCHANGED adcVars
    /\ UNCHANGED batVars
    /\ UNCHANGED <<call, rx, fw>>

\* Another handler runs when the click handler is not under way, or once
\* right after its test.
Preemptible == click = "idle" \/ last_op = "click_test"

NextClick ==
    \/ InputInstant /\ ShortClickTest
    \/ ShortClickToggle
    \/ Preemptible /\ Callback01
    \/ Preemptible /\ InputInstant /\ UART_ProcessTimerStart
    \/ Preemptible /\ InputInstant /\ UART_ProcessTimerStop

SpecClick == Init /\ [][NextClick]_vars

\* The serial line: the host sends whole lines byte by byte while the serial
\* task runs its loop.  The lines: two commands, a line of exactly
\* CMD_BUFFER_SIZE characters, and a longer one that ends in the letters of
\* a command.
LongLine(n) == [i \in 1..n |-> "A"]

RxLines ==
    {Str_GET_STATUS \o <<LF>>,
     Str_SET_TIMER_prefix \o <<"0", "5", ":", "0", "0", LF>>,
     LongLine(CMD_BUFFER_SIZE) \o <<LF>>,
     LongLine(CMD_BUFFER_SIZE) \o Str_PING \o <<LF>>}

NextUart ==
    \/ HostByte(RxLines)
    \/ \E has_image \in BOOLEAN, screen_due \in BOOLEAN :
           StartUartTask(has_image, screen_due)

SpecUart == Init /\ [][NextUart]_vars

\* The serial line served by the functions of uart_protocol.c.
MutexLines ==
    {Str_GET_SCREEN \o <<LF>>, Str_GET_STATUS \o <<LF>>, Str_PING \o <<CR, LF>>,
     Str_SET_UPDATE_MODE_prefix \o Str_MANUAL \o <<LF>>}

NextMutex ==
    \/ HostByte(MutexLines)
    \/ \E has_image \in BOOLEAN, tx_ok \in ScreenOutcomes,
          screen_due \in BOOLEAN :
           StartUartTask_protocol(has_image, tx_ok, screen_due)

SpecMutex == Init /\ [][NextMutex]_vars

\* The battery monitor called periodically.
NextBat == BatteryCall

SpecBat == Init /\ [][NextBat]_vars

(***************************************************************************)
(* Properties                                                              *)
(***************************************************************************)
AdcOps == {"adc", "adc_settled"}
StopOps == {"button_stop", "OK:Timer stopped", "OK:Timer stopped, cooling started"}
Running == Button_State.is_Start_Timer
Cooling == Button_State.is_start_to_cooling
InTimerSet == Button_State.Current_Button_State = BUTTON_STATE_TIMER_SET
Stopped == ~Running /\ ~Cooling /\ ~MainTimerActive /\ FAN_ONOFF = GPIO_PIN_RESET
ClampCooling(x) == Max2(COOLING_MIN, Min2(COOLING_MAX, x))
\* Time read by the last AdcTask pass.
AdcNow == adc_tick - ADC_PERIOD_MS + VBAT_SAMPLES * 2

\* C1: whenever Adc_State.Cut_Off_PWM is set, the compare value the ADC task
\* has written is DUTY_0.
C1_CutOffForcesZeroDuty ==
    (last_op \in AdcOps /\ Adc_State.Cut_Off_PWM) => pwm_compare = DUTY_0

\* C2: the battery status has hysteresis: once CRITICAL it stays CRITICAL
\* for readings between the critical and the recovery threshold, and it
\* leaves CRITICAL only for NORMAL, on a reading above the recovery threshold
\* (the LOW/NORMAL boundary, the only threshold above the critical one).
C2_StatusHysteresis ==
    [][(monitor.status = BATTERY_STATUS_CRITICAL
        /\ monitor'.status # BATTERY_STATUS_CRITICAL)
          => (/\ monitor'.status = BATTERY_STATUS_NORMAL
              /\ monitor'.battery_percentage > PERCENT_LOW)]_vars

\* C3: at most one of TIMER_SET mode, is_Start_Timer and is_start_to_cooling
\* holds in every reachable state.
C3_ModesExclusive ==
    /\ ~(InTimerSet /\ Running)
    /\ ~(InTimerSet /\ Cooling)
    /\ ~(Running /\ Cooling)

\* C4: a countdown started from STANDBY with Timer_Value = M is in COOLING
\* after exactly M*60 undisturbed Callback01 ticks.
C4_CoolingAfterSixtyPerMinute ==
    (run_ticks >= 0 /\ run_ticks = Button_State.Timer_Value * 60)
        => (~Running /\ Cooling)

\* C5: stopping a running timer at remaining minute m < M and second s <= 50
\* enters COOLING with cooling_second = 10*(M-m) clamped into [30, 60].
C5_EarlyStopCooling ==
    (/\ last_op \in StopOps
     /\ ~InTimerSet
     /\ Button_State.minute_count < Button_State.Timer_Value
     /\ Button_State.second_count <= COOLING_STOP_SECOND)
        => (/\ Cooling
            /\ Button_State.cooling_second =
                   ClampCooling(10 * (Button_State.Timer_Value
                                      - Button_State.minute_count)))

\* C6: when the countdown expires, Callback01 enters COOLING with
\* cooling_second = Timer_Value*10 clamped into [30, 60].
C6_ExpiryCooling ==
    last_op = "callback_expire"
        => (/\ Cooling /\ ~Running
            /\ Button_State.cooling_second =
                   ClampCooling(Button_State.Timer_Value * 10))

\* C7: the Callback01 tick that ends COOLING leaves the device in STANDBY
\* with is_start_to_cooling false, the MainTimer stopped and the fan off.
C7_CoolingEndsInStandby ==
    last_op = "callback_cooled"
        => (/\ Button_State.Current_Button_State = BUTTON_STATE_STANDBY
            /\ Stopped)

\* C8: stopping a running timer while second_count > 50 is a full stop: both
\* flags false, the MainTimer stopped and the fan off.
C8_FullStopAfterFifty ==
    (last_op \in StopOps /\ Button_State.second_count > COOLING_STOP_SECOND)
        => Stopped

C8_Witness ==
    /\ last_op = "button_stop"
    /\ Button_State.second_count = 51
    /\ Button_State.minute_count < Button_State.Timer_Value
    /\ Stopped

\* The truth table of section 4.3, written out pair by pair.
ExpectedDuty(l1, l2) ==
    CASE l1 = LED_STATE_LOW    /\ l2 = LED_STATE_LOW    -> 800
      [] l1 = LED_STATE_LOW    /\ l2 = LED_STATE_MIDDLE -> 400
      [] l1 = LED_STATE_LOW    /\ l2 = LED_STATE_HIGH   -> 800
      [] l1 = LED_STATE_MIDDLE /\ l2 = LED_STATE_LOW    -> 400
      [] l1 = LED_STATE_MIDDLE /\ l2 = LED_STATE_MIDDLE -> 0
      [] l1 = LED_STATE_MIDDLE /\ l2 = LED_STATE_HIGH   -> 800
      [] l1 = LED_STATE_HIGH   /\ l2 = LED_STATE_LOW    -> 800
      [] l1 = LED_STATE_HIGH   /\ l2 = LED_STATE_MIDDLE -> 800
      [] l1 = LED_STATE_HIGH   /\ l2 = LED_STATE_HIGH   -> 800

\* C9: the target duty computed for a settled pair of LED states is the
\* table's: both LOW or any HIGH 100 %, one LOW with one MIDDLE 50 %, both
\* MIDDLE 0 %.
C9_TargetDutyTable ==
    last_op = "adc_settled"
        => adc.target_duty = ExpectedDuty(Adc_State.LED1_State,
                                          Adc_State.LED2_State)

C9_Witness ==
    /\ last_op = "adc_settled"
    /\ Adc_State.LED1_State = LED_STATE_MIDDLE
    /\ Adc_State.LED2_State = LED_STATE_LOW
    /\ adc.target_duty = DUTY_50

\* C10: Current_PWM_Duty changes only to the table value of a pair that has
\* been stable for the 100 ms window (a pair that reverts earlier leaves it
\* unchanged), and a pair that stays beyond the window has its table value
\* committed.
C10_PwmDebounce ==
    /\ [][Adc_State'.Current_PWM_Duty # Adc_State.Current_PWM_Duty
            => (/\ AdcNow' - stable_since' >= PWM_SETTLE_MS
                /\ Adc_State'.Current_PWM_Duty =
                       ExpectedDuty(Adc_State'.LED1_State,
                                    Adc_State'.LED2_State))]_vars
    /\ [](( /\ last_op \in AdcOps
            /\ AdcNow - stable_since >= PWM_SETTLE_MS)
             => Adc_State.Current_PWM_Duty =
                    ExpectedDuty(Adc_State.LED1_State, Adc_State.LED2_State))

C10_Witness ==
    /\ last_op = "adc_settled"
    /\ stable_since > VBAT_SAMPLES * 2
    /\ AdcNow - stable_since = PWM_SETTLE_MS
    /\ Adc_State.Current_PWM_Duty = DUTY_50

\* C11: whenever is_Start_Timer is false (STANDBY, TIMER_SET or COOLING) the
\* compare value written by an ADC-task pass is 0, whatever Current_PWM_Duty.
C11_IdleCompareZero ==
    (last_op \in AdcOps /\ ~Running) => pwm_compare = DUTY_0

C11_Witness ==
    /\ last_op \in AdcOps
    /\ ~Running
    /\ Cooling
    /\ Adc_State.Current_PWM_Duty = DUTY_100
    /\ pwm_compare = DUTY_0

C11_WitnessTimerSet ==
    /\ last_op \in AdcOps
    /\ ~Running /\ ~Cooling /\ InTimerSet
    /\ Adc_State.Current_PWM_Duty = DUTY_100
    /\ pwm_compare = DUTY_0

\* C12: a raw level held for only 1 or 2 consecutive polls never changes
\* Button_Current_State; the accepted level changes only in a period of at
\* least 3 consecutive equal samples, and then to the sampled level.
C12_DebounceThree ==
    [][Button_State'.Button_Current_State # Button_State.Button_Current_State
          => (/\ tick' - tick >= DEBOUNCE_COUNT * BUTTON_POLL_MS
              /\ Button_State'.Button_Current_State = raw_level')]_vars

\* A pressed level sampled twice after an accepted release.
C12_Witness ==
    /\ raw_level = GPIO_PIN_RESET
    /\ btn.button_stable_state = GPIO_PIN_RESET
    /\ btn.button_stable_count = 2
    /\ Button_State.Button_Current_State = GPIO_PIN_SET
    /\ Button_State.Button_Press_Start_Time > 0

\* C13: from STANDBY with the timer not running, a debounced press held for
\* 1.5 s without a release switches Current_Button_State to TIMER_SET while
\* the button is still down, and the 5 s inactivity timer starts at the
\* moment the 1.5 s are reached.
C13_HoldEntersTimerSet ==
    [][(/\ raw_level = GPIO_PIN_SET
        /\ Button_State.Button_Current_State = GPIO_PIN_SET
        /\ Button_State.Current_Button_State = BUTTON_STATE_STANDBY
        /\ ~Button_State.is_Start_Timer
        /\ tick' - tick >= DEBOUNCE_COUNT * BUTTON_POLL_MS + LONG_PRESS_MS)
          => (/\ raw_level' = GPIO_PIN_RESET
              /\ btn'.is_Button_Pressed
              /\ Button_State'.Current_Button_State = BUTTON_STATE_TIMER_SET
              /\ Button_State'.Timer_Set_Start_Time =
                     tick + DEBOUNCE_COUNT * BUTTON_POLL_MS + LONG_PRESS_MS)]_vars

\* The hold has just entered TIMER_SET on a press that followed a release.
C13_Witness ==
    /\ raw_level = GPIO_PIN_RESET
    /\ btn.is_Button_Pressed
    /\ Button_State.Current_Button_State = BUTTON_STATE_TIMER_SET
    /\ Button_State.is_pushed_changed
    /\ Button_State.Timer_Set_Start_Time = tick
    /\ Button_State.Button_Press_Start_Time > DEBOUNCE_COUNT * BUTTON_POLL_MS
    /\ tick - Button_State.Button_Press_Start_Time = LONG_PRESS_MS

\* A release period whose third poll accepts the release of a short press
\* (20 ms <= duration < 1 s) made in TIMER_SET.
TimerSetClick ==
    /\ raw_level = GPIO_PIN_RESET /\ raw_level' = GPIO_PIN_SET
    /\ Button_State.Button_Current_State = GPIO_PIN_RESET
    /\ Button_State.Button_Prev_State = GPIO_PIN_RESET
    /\ btn.button_stable_count = DEBOUNCE_COUNT
    /\ InTimerSet
    /\ tick' - tick >= DEBOUNCE_COUNT * BUTTON_POLL_MS
    /\ tick + DEBOUNCE_COUNT * BUTTON_POLL_MS
           - Button_State.Button_Press_Start_Time < SHORT_CLICK_MS
    /\ tick + DEBOUNCE_COUNT * BUTTON_POLL_MS
           - Button_State.Button_Press_Start_Time >= CLICK_MIN_MS

\* C14: in TIMER_SET a short click changes Timer_Value from v to v + 2,
\* wrapping to 2 once 10 is exceeded, and restarts the 5 s inactivity timer;
\* after the click the duration lies in [2, 10] whatever value was held on
\* entry.
C14_ClickStepsDuration ==
    [][TimerSetClick
          => (/\ Button_State'.Timer_Value =
                     (IF Button_State.Timer_Value + TIMER_STEP > TIMER_MAX
                      THEN TIMER_STEP
                      ELSE Button_State.Timer_Value + TIMER_STEP)
              /\ Button_State'.Timer_Value \in TIMER_STEP..TIMER_MAX
              /\ Button_State'.Timer_Set_Start_Time =
                     tick + DEBOUNCE_COUNT * BUTTON_POLL_MS)]_vars

\* C15: TIMER_SET is always left.  At every poll in TIMER_SET: with the
\* button up, less than 5 s have passed since the entry or the last click;
\* with a new press in progress, it has lasted less than 1.5 s; with the
\* button still down from the hold that entered TIMER_SET, less than 5 s have
\* passed since the entry.
C15_TimerSetAlwaysLeft ==
    InTimerSet =>
        /\ btn.is_Button_Released
              => tick - Button_State.Timer_Set_Start_Time < TIMER_SET_TIMEOUT_MS
        /\ (btn.is_Button_Pressed /\ ~Button_State.is_pushed_changed)
              => tick - Button_State.Button_Press_Start_Time < LONG_PRESS_MS
        /\ (btn.is_Button_Pressed /\ Button_State.is_pushed_changed)
              => tick - Button_State.Timer_Set_Start_Time < TIMER_SET_TIMEOUT_MS

\* C16: every transition out of TIMER_SET to STANDBY persists the configured
\* duration: right after the exit the flash page is valid and its timer value
\* equals Button_State.Timer_Value, whatever caused the exit and whichever
\* writer last changed Timer_Value.
C16_ExitPersistsDuration ==
    [][(InTimerSet /\ ~InTimerSet')
          => (/\ Button_State'.Current_Button_State = BUTTON_STATE_STANDBY
              /\ Flash_ReadTimerValue(flash').ok
              /\ Flash_ReadTimerValue(flash').timer_value
                     = Word32(Button_State'.Timer_Value))]_vars

\* C17: flash round trip.  A read that directly follows a successful
\* Flash_WriteBatteryData returns HAL_OK and exactly the three values
\* written; a read that directly follows a successful Flash_WriteTimerValue(t)
\* returns HAL_OK and t.
C17_FlashRoundTrip ==
    [][/\ (call.fn = "Flash_WriteBatteryData" /\ call.ok
            /\ call'.fn = "Flash_ReadBatteryData")
              => (call'.ok /\ call'.res = call.arg)
       /\ (call.fn = "Flash_WriteTimerValue" /\ call.ok
            /\ call'.fn = "Flash_ReadTimerValue")
              => (call'.ok /\ call'.res = <<Word32(call.arg[1])>>)]_vars

\* (77, CRITICAL, 3000) read back after being written over a record that
\* held other battery values.
C17_Witness ==
    /\ call.fn = "Flash_ReadBatteryData"
    /\ call.fresh
    /\ call.ok
    /\ call.arg = <<77, BATTERY_STATUS_CRITICAL, 3000>>
    /\ call.res = <<77, BATTERY_STATUS_CRITICAL, 3000>>
    /\ flash.timer_value = Word32(254)

\* The three tests of the stored record, written out on the stored fields.
RecordMatches ==
    /\ flash.magic = <<43981, 8465>>
    /\ flash.version = 1
    /\ flash.checksum[1] = 0
    /\ flash.checksum[2] =
           ByteSum(flash.magic[1], 2) + ByteSum(flash.magic[2], 2)
           + ByteSum(flash.version, 2) + ByteSum(flash.reserved, 2)
           + ByteSum(flash.timer_value[1], 2) + ByteSum(flash.timer_value[2], 2)
           + flash.battery_percentage + flash.battery_status
           + ByteSum(flash.last_battery_adc, 2)

\* C18: a read is rejected unless magic, version and checksum all match, in
\* particular after any single byte of a valid record was changed:
\* Flash_ReadBatteryData then reports an error and returns 50 %, NORMAL and
\* ADC 3300, Flash_ReadTimerValue reports an error and returns 10.
C18_ReadRejectsMismatch ==
    /\ (call.fn = "Flash_ReadBatteryData" /\ ~RecordMatches)
          => (~call.ok /\ call.res = <<50, BATTERY_STATUS_NORMAL, 3300>>)
    /\ (call.fn = "Flash_ReadTimerValue" /\ ~RecordMatches)
          => (~call.ok /\ call.res = <<Word32(DEFAULT_TIMER_VALUE)>>)
    /\ call.fn = "corrupt" => ~RecordMatches

\* A read rejected because one byte of the stored checksum was changed, the
\* stored percentage being 77.
C18_Witness ==
    /\ call.fn = "Flash_ReadBatteryData"
    /\ ~call.ok
    /\ call.res = <<50, BATTERY_STATUS_NORMAL, 3300>>
    /\ flash.magic = FLASH_MAGIC_NUMBER
    /\ flash.version = FLASH_VERSION
    /\ flash.battery_percentage = 77
    /\ flash.checksum # Flash_CalculateChecksum(flash)
    /\ flash.checksum[2] % 256 = Flash_CalculateChecksum(flash)[2] % 256

\* The result r (hundredths of a percent) is the linear interpolation at a
\* between the table entries k and k + 1, rounded to two decimals.
IsRoundedInterpolation(a, r, k) ==
    LET adc_low == battery_lookup_table[k][1]
        adc_high == battery_lookup_table[k + 1][1]
        den == adc_high - adc_low
        exact == 100 * (battery_lookup_table[k][2] * den
                        + (a - adc_low) * (battery_lookup_table[k + 1][2]
                                           - battery_lookup_table[k][2]))
    IN  /\ adc_low <= a /\ a <= adc_high
        /\ 2 * Abs(r * den - exact) <= den

\* C19: over the ADC inputs 0..4095 Battery_Calculate_Percentage is
\* monotonically non-decreasing, exactly 0 at or below 2741, exactly 100 at
\* or above 3730, and otherwise the linear interpolation between the
\* bracketing table entries rounded to two decimals.
C19_PercentageCurve ==
    /\ [][(call.fn = "Battery_Calculate_Percentage"
            /\ call'.fn = "Battery_Calculate_Percentage"
            /\ call.arg[1] <= call'.arg[1])
              => call.res[1] <= call'.res[1]]_vars
    /\ [](call.fn = "Battery_Calculate_Percentage"
            => LET a == call.arg[1]
                   r == call.res[1]
               IN  /\ a <= 2741 => r = 0
                   /\ a >= 3730 => r = 100 * 100
                   /\ (a > 2741 /\ a < 3730)
                         => \E k \in 1..(Len(battery_lookup_table) - 1) :
                                IsRoundedInterpolation(a, r, k))

\* 2745 lies 4/9 of the way from <<2741, 0>> to <<2750, 1>>: 0.44 %.
C19_Witness ==
    /\ call.fn = "Battery_Calculate_Percentage"
    /\ call.arg = <<2745>>
    /\ call.res = <<44>>

\* C20: battery_percentage stays within [0, 100] in every state reachable
\* from Battery_Monitor_Init by Battery_Monitor_Update calls, whatever the
\* conversions, the load flags and the flash contents at initialisation.
C20_PercentageInRange ==
    monitor.battery_percentage >= 0 /\ monitor.battery_percentage <= 100 * 100

\* The percentage brought down to 0 by conversions below the table.
C20_Witness ==
    /\ last_op = "battery_step"
    /\ monitor.battery_percentage = 0
    /\ bat_input.raw = BATTERY_MIN - 40

\* The percentage raised to 100 by a conversion above BATTERY_FULL.
C20_WitnessFull ==
    /\ last_op = "battery_step"
    /\ monitor.battery_percentage = 100 * 100
    /\ bat_input.raw = BATTERY_FULL + 60

\* The averaged sample the last pass fed to the step limiter.
AdcAverageOf(A) ==
    AdcRingAverage(A.VBat_Buffer, A.VBat_Buffer_Index, A.VBat_Buffer_Full)

\* C21: except on the first-ever update, one pass never moves VBat_Filtered
\* by more than max(30, |diff| / 4), diff being the new average minus the
\* previous filtered value.
C21_StepLimited ==
    [][(adc_tick' # adc_tick /\ adc_tick > 0)
          => Abs(Adc_State'.VBat_Filtered - Adc_State.VBat_Filtered)
               <= Max2(VBAT_STEP_THRESHOLD,
                       Abs(AdcAverageOf(Adc_State') - Adc_State.VBat_Filtered)
                           \div 4)]_vars

\* C22: after k >= 1 battery samples were stored, the averaging stage of the
\* ADC task outputs the integer mean of the last 8 samples when k >= 8 and
\* of exactly the k samples received when k < 8.
C22_RingAverage ==
    adc_tick > 0 =>
        LET k == adc_tick \div ADC_PERIOD_MS
            n == Min2(k, VBAT_FILTER_SIZE)
        IN  AdcAverageOf(Adc_State) = SeqSum(Adc_State.VBat_Buffer, n) \div n

\* Number of entries of kind k in the transmissions tx.
CountKind(tx, k) ==
    Cardinality({i \in 1..Len(tx) : tx[i].kind = k})

\* C23: every GET_STATUS command line the serial task dispatches results in
\* exactly one STATUS line being transmitted by that pass of the task.
C23_StatusAnswered ==
    (call.fn = "UART_ProcessCommand" /\ call.arg = <<Str_GET_STATUS>>)
        => CountKind(call.res, "STATUS") = 1

\* C24: after an accepted SET_TIMER in STANDBY (the device neither running
\* nor cooling nor in TIMER_SET), the status snapshot shows state STANDBY and
\* the configured duration as its timer field: Timer_Value minutes, 00
\* seconds (05:00 after SET_TIMER:05:00).
C24_StatusShowsConfigured ==
    (last_op = "OK:Timer set" /\ StatusString(Button_State) = "STANDBY")
        => /\ StatusFields(Button_State, Adc_State)[4] = "STANDBY"
           /\ StatusFields(Button_State, Adc_State)[2] = Button_State.Timer_Value
           /\ StatusFields(Button_State, Adc_State)[3] = 0

\* C25: RESET from any reachable state forces STANDBY: after
\* UART_ProcessReset the state is BUTTON_STATE_STANDBY, is_Start_Timer and
\* is_start_to_cooling are false, the MainTimer is stopped, FAN_ONOFF is low,
\* monitoring is disabled, and the reply is OK:System reset; a RESET is
\* answered in every state.
C25_ResetForcesStandby ==
    /\ Len(UART_ProcessResetBody(SerialBundle("UART_ProcessCommand")).tx) = 1
    /\ UART_ProcessResetBody(SerialBundle("UART_ProcessCommand")).tx[1].kind
           = "OK:System reset"
    /\ last_op = "OK:System reset"
           => /\ Button_State.Current_Button_State = BUTTON_STATE_STANDBY
              /\ ~Button_State.is_Start_Timer
              /\ ~Button_State.is_start_to_cooling
              /\ ~MainTimerActive
              /\ FAN_ONOFF = GPIO_PIN_RESET
              /\ UART_State.monitoring_enabled = 0
              /\ UART_State.auto_screen_update = 0

\* A RESET has been answered after the timer had counted (second_count keeps
\* the countdown's last value).
C25_Witness ==
    /\ last_op = "OK:System reset"
    /\ Button_State.second_count > 0
    /\ Button_State.minute_count = 0

ErrorReplies ==
    {"ERROR:Timer already running", "ERROR:Timer not running",
     "ERROR:Invalid time range", "ERROR:Invalid time format",
     "ERROR:Unknown command"}

\* The step is the dispatch of the command line cmd_str.
Dispatched(cmd_str) ==
    /\ last_op' \notin {"callback_tick", "callback_expire", "callback_cooling",
                        "callback_cooled", "callback_idle"}
    /\ call'.fn = "UART_ProcessCommand"
    /\ call'.arg = <<cmd_str>>

TimerStateUnchanged ==
    /\ Button_State'.is_Start_Timer = Button_State.is_Start_Timer
    /\ Button_State'.is_start_to_cooling = Button_State.is_start_to_cooling
    /\ Button_State'.minute_count = Button_State.minute_count
    /\ Button_State'.second_count = Button_State.second_count
    /\ Button_State'.cooling_second = Button_State.cooling_second
    /\ MainTimerActive' = MainTimerActive
    /\ FAN_ONOFF' = FAN_ONOFF

\* C26: serial command errors are reported and change nothing: START_TIMER
\* while running or cooling, and STOP_TIMER while not running, reply with an
\* ERROR line and leave the two flags, the countdown registers, the MainTimer
\* and FAN_ONOFF as they were; SET_TIMER with an out-of-range or unparsable
\* argument replies ERROR and leaves Timer_Value as it was.
C26_ErrorsChangeNothing ==
    [][/\ (Dispatched(Str_START_TIMER) /\ (Running \/ Cooling))
              => (last_op' \in ErrorReplies /\ TimerStateUnchanged)
       /\ (Dispatched(Str_STOP_TIMER) /\ ~Running)
              => (last_op' \in ErrorReplies /\ TimerStateUnchanged)
       /\ \A bad \in BadSetTimerLines :
              Dispatched(bad)
                  => /\ last_op' \in ErrorReplies
                     /\ Button_State'.Timer_Value = Button_State.Timer_Value]_vars

\* START_TIMER has been refused while the device was cooling.
C26_Witness ==
    /\ last_op = "ERROR:Timer already running"
    /\ call.arg = <<Str_START_TIMER>>
    /\ Cooling
    /\ ~Running

\* C27: an input line that overflows the command buffer is discarded as a
\* whole: as long as every line the host has started was over-long, no
\* command has been dispatched and nothing has been transmitted.
C27_OverlongDiscarded ==
    (rx.sent > 0 /\ rx.only_long)
        => (call.fn # "UART_ProcessCommand" /\ call.res = <<>>)

\* C28: on every transmit path, nothing is written to the UART by a caller
\* whose acquisition of the UART mutex did not succeed: every transmission
\* of a pass of the serial task was made after a successful acquire by the
\* function that made it.
C28_NoTransmitWithoutMutex ==
    call.fn \in {"UART_ProcessCommand", "StartUartTask"}
        => \A i \in 1..Len(call.res) : call.res[i].acquired

\* C29: single-writer discipline: each shared field of Button_State is
\* changed by at most one execution context among the button task, the
\* serial task and the timer callback.
C29_SingleWriter ==
    \A f \in SharedFields : Cardinality(writers.by[f]) <= 1

\* C30: under every interleaving of the button task's short-click handler
\* with Callback01 and with the serial START_TIMER and STOP_TIMER handlers,
\* is_Start_Timer and is_start_to_cooling are never both true.
C30_FlagsExclusive ==
    ~(Button_State.is_Start_Timer /\ Button_State.is_start_to_cooling)

CoolingFields ==
    <<Button_State.is_Start_Timer, Button_State.is_start_to_cooling,
      Button_State.cooling_second>>

PressPeriod ==
    /\ raw_level = GPIO_PIN_SET /\ raw_level' = GPIO_PIN_RESET
    /\ Button_State.Button_Current_State = GPIO_PIN_SET
    /\ Button_State.Button_Prev_State = GPIO_PIN_SET
    /\ btn.button_stable_count = DEBOUNCE_COUNT

\* Time the debounced press of a press period has been held at its end.
HeldMs == tick' - (tick + DEBOUNCE_COUNT * BUTTON_POLL_MS)

\* The step is the release that ends a debounced press.
ReleasePeriod ==
    /\ raw_level = GPIO_PIN_RESET /\ raw_level' = GPIO_PIN_SET
    /\ Button_State.Button_Current_State = GPIO_PIN_RESET
    /\ Button_State.Button_Prev_State = GPIO_PIN_RESET
    /\ btn.button_stable_count = DEBOUNCE_COUNT
    /\ tick' - tick >= DEBOUNCE_COUNT * BUTTON_POLL_MS

CountdownSeconds == Button_State.minute_count * 60 + Button_State.second_count

\* C34: during an undisturbed run every Callback01 tick before expiry lowers
\* minute_count * 60 + second_count by exactly 1, and the two counters stay
\* within 0 <= second_count <= 59 and 0 <= minute_count <= Timer_Value, for
\* every configured duration the firmware accepts.
C34_CountdownInRange ==
    [][/\ (Running' /\ run_ticks' >= 0)
           => /\ Button_State'.second_count >= 0
              /\ Button_State'.second_count <= 59
              /\ Button_State'.minute_count >= 0
              /\ Button_State'.minute_count <= Button_State'.Timer_Value
       /\ (Running /\ run_ticks >= 0 /\ last_op' = "callback_tick")
           => CountdownSeconds' = CountdownSeconds - 1]_vars

\* C35: whenever is_start_to_cooling is true, 1 <= cooling_second <= 60, for
\* every stop point and every configured duration.
C35_CoolingSecondInRange ==
    Cooling => /\ Button_State.cooling_second >= 1
               /\ Button_State.cooling_second <= COOLING_MAX

\* The last call was a flash write.
FlashWriteCall == call.fn \in {"Flash_WriteTimerValue", "Flash_WriteBatteryData"}

\* Outcomes in which the write stopped after the page erase or after a strict
\* prefix of the three doubleword programs.
InterruptedOutcomes ==
    {"unlock_fail", "program_fail_0", "program_fail_1", "program_fail_2"}

\* C36: a flash write interrupted after the page erase, or after any strict
\* prefix of its three doubleword programs, leaves a record that fails
\* validation: the reads that follow return the defaults (10; 50 %, NORMAL,
\* 3300) with an error, never a mixture of old and new fields.
C36_InterruptedWriteInvalid ==
    /\ [](FlashWriteCall /\ call.res[1] \in InterruptedOutcomes
            => /\ ~call.ok
               /\ ~Flash_IsDataValid(flash)
               /\ Timer_LoadFromFlash(flash) = DEFAULT_TIMER_VALUE)
    /\ [][(FlashWriteCall /\ call.res[1] \in InterruptedOutcomes)
            => /\ call'.fn = "Flash_ReadTimerValue"
                     => (~call'.ok
                         /\ call'.res = <<Word32(DEFAULT_TIMER_VALUE)>>)
               /\ call'.fn = "Flash_ReadBatteryData"
                     => (~call'.ok
                         /\ call'.res = <<50, BATTERY_STATUS_NORMAL, 3300>>)]_vars

\* Flash_WriteTimerValue(254) stopped after two doublewords over a valid
\* record: magic, version and the new fields are in place, the checksum word
\* is still erased.
C36_Witness ==
    /\ call.fn = "Flash_WriteTimerValue"
    /\ call.arg = <<254>>
    /\ call.res = <<"program_fail_2">>
    /\ flash.magic = FLASH_MAGIC_NUMBER
    /\ flash.version = FLASH_VERSION
    /\ flash.timer_value = Word32(254)
    /\ flash.battery_percentage = 77
    /\ flash.checksum = ErasedPage.checksum

\* C37: on a valid record a successful Flash_WriteTimerValue leaves the three
\* battery fields unchanged and a successful Flash_WriteBatteryData leaves
\* timer_value unchanged; on an invalid record the fields the call does not
\* set are 50, NORMAL, 3300 (timer write) or 10 (battery write); the record
\* is valid afterwards.
C37_WritePreservesOther ==
    [][/\ (call'.fn = "Flash_WriteTimerValue" /\ call'.ok)
           => /\ Flash_IsDataValid(flash')
              /\ <<flash'.battery_percentage, flash'.battery_status,
                    flash'.last_battery_adc>>
                     = IF Flash_IsDataValid(flash)
                       THEN <<flash.battery_percentage, flash.battery_status,
                              flash.last_battery_adc>>
                       ELSE <<50, BATTERY_STATUS_NORMAL, 3300>>
       /\ (call'.fn = "Flash_WriteBatteryData" /\ call'.ok)
           => /\ Flash_IsDataValid(flash')
              /\ flash'.timer_value
                     = IF Flash_IsDataValid(flash) THEN flash.timer_value
                       ELSE Word32(DEFAULT_TIMER_VALUE)]_vars

\* A successful timer write over a valid record that held 77 %, CRITICAL,
\* 3000 and another duration.
C37_Witness ==
    /\ call.fn = "Flash_WriteTimerValue"
    /\ call.ok
    /\ call.arg = <<70000>>
    /\ Flash_IsDataValid(flash)
    /\ flash.timer_value = Word32(70000)
    /\ flash.battery_percentage = 77
    /\ flash.battery_status = BATTERY_STATUS_CRITICAL
    /\ flash.last_battery_adc = 3000

\* The flash writer p has returned.
FlashWriteReturned(p) == fw[p].pc \in {"ok", "error"}

\* C38: when Flash_WriteTimerValue and Flash_WriteBatteryData are interleaved
\* at the granularity of read-existing, erase and doubleword program, the
\* record after both have returned is valid and holds the timer value of the
\* one and the battery fields of the other.
C38_BothUpdatesKept ==
    (FlashWriteReturned("timer") /\ FlashWriteReturned("battery"))
        => /\ Flash_IsDataValid(flash)
           /\ flash.timer_value = Word32(fw["timer"].arg[1])
           /\ <<flash.battery_percentage, flash.battery_status,
                 flash.last_battery_adc>> = fw["battery"].arg

\* The step is a pass of the serial task that dispatches a command.
DispatchStep ==
    /\ UART_State.command_ready # 0
    /\ call'.fn = "UART_ProcessCommand"
    /\ rx' = rx

\* C39: a command line completed by the receive interrupt is dispatched
\* exactly once and with exactly the bytes of that line, under every
\* interleaving of the interrupt with the task's poll: the string a pass
\* dispatches is the last line delivered whole, and after the pass the
\* buffer holds nothing of it any more.
C39_LineDispatchedIntact ==
    [][DispatchStep
          => /\ call'.arg = <<rx.last>>
             /\ UART_State'.command_ready = 0
             /\ UART_State'.cmd_index = 0]_vars

\* Successful acquires and releases among the first n calls of the log.
RECURSIVE MutexHeld(_, _)
MutexHeld(log, n) ==
    IF n = 0 THEN 0
    ELSE MutexHeld(log, n - 1)
             + (IF log[n].op = "acquire" /\ log[n].held = "none" THEN 1
                ELSE IF log[n].op = "release" THEN -1 ELSE 0)

\* C40: the UART mutex is balanced on every path of the serial transmit
\* functions: every release is made while the caller holds the mutex, every
\* successful acquire is followed by exactly one release, and the mutex is
\* free once the pass that processed a command has ended.
C40_MutexBalanced ==
    call.fn \in {"UART_ProcessCommand", "StartUartTask"}
        => /\ \A i \in 1..Len(call.res) :
                  call.res[i].op = "release" => call.res[i].held # "none"
           /\ MutexHeld(call.res, Len(call.res)) = 0
           /\ call.ok

====
